---- MODULE Spec2Model ----
(***************************************************************************)
(* TeenyJVM: the bytecode interpreter of src/src/jvm.c with the array heap  *)
(* of src/src/heap.c and the constant-pool / method lookups of              *)
(* src/src/read_class.c.                                                    *)
(*                                                                          *)
(* A state is the loaded class file, the chain of execute() activations     *)
(* (one frame per activation, the innermost last), the heap table, the      *)
(* allocated arrays, and the lines printed so far.  One action models one   *)
(* case group of execute()'s switch.  A call is split where the C code      *)
(* recurses: Invokestatic runs the handler up to the recursive call and the *)
(* returning action runs the rest of it (push of the result, pc += 2).      *)
(*                                                                          *)
(* Accesses outside an object (operand stack, locals, heap table, array)    *)
(* are undefined in C: the run then enters status "undefined", in which     *)
(* nothing more is modelled.  A local slot that no code has written holds   *)
(* an indeterminate value, chosen when it is first read.                    *)
(*                                                                          *)
(* Spec runs the interpreter on classes already loaded.  The loader of      *)
(* read_class.c is run on the bytes of a file by two further                *)
(* specifications: SpecPool runs get_constant_pool, SpecAttributes runs     *)
(* read_method_attributes; class_file is the FILE (its bytes and its        *)
(* position) and loader holds the locals of the loader function.            *)
(* SpecParameters calls get_number_of_parameters on descriptors of bounded  *)
(* length.  SpecRuns runs the interpreter twice on one class file, loader   *)
(* keeping what the first run printed and how it ended.                     *)
(***************************************************************************)
EXTENDS Integers, Sequences, FiniteSets, TLC

VARIABLES class_file, loader, class, frames, heap, memory, out, status, result

vars == <<class_file, loader, class, frames, heap, memory, out, status, result>>

----------------------------------------------------------------------------
(* Bounds of the model *)

\* main's bytecode is the concatenation of at most MaxBlocks blocks of Blocks
MaxBlocks == 3

----------------------------------------------------------------------------
(* Opcodes (jvm.h), named as the cases of execute()'s switch name them; the  *)
(* values are the JVM's, which the OFFSET_ constants of jvm.c agree with     *)

i_nop == 0
i_iconst_m1 == 2
i_iconst_0 == 3
i_iconst_1 == 4
i_iconst_2 == 5
i_iconst_3 == 6
i_iconst_4 == 7
i_iconst_5 == 8
i_bipush == 16
i_iload == 21
i_aload == 25
i_iload_0 == 26
i_iload_1 == 27
i_iload_2 == 28
i_iload_3 == 29
i_aload_0 == 42
i_aload_1 == 43
i_aload_2 == 44
i_aload_3 == 45
i_iaload == 46
i_istore == 54
i_astore == 58
i_istore_0 == 59
i_istore_1 == 60
i_istore_2 == 61
i_istore_3 == 62
i_astore_0 == 75
i_astore_1 == 76
i_astore_2 == 77
i_astore_3 == 78
i_iastore == 79
i_dup == 89
i_ireturn == 172
i_areturn == 176
i_return == 177
i_getstatic == 178
i_invokevirtual == 182
i_invokestatic == 184
i_newarray == 188
i_arraylength == 190
i_sipush == 17
i_ldc == 18
i_iadd == 96
i_isub == 100
i_imul == 104
i_idiv == 108
i_irem == 112
i_ineg == 116
i_ishl == 120
i_ishr == 122
i_iushr == 124
i_iand == 126
i_ior == 128
i_ixor == 130
i_iinc == 132
i_ifeq == 153
i_ifne == 154
i_iflt == 155
i_ifge == 156
i_ifgt == 157
i_ifle == 158
i_if_icmpeq == 159
i_if_icmpne == 160
i_if_icmplt == 161
i_if_icmpge == 162
i_if_icmpgt == 163
i_if_icmple == 164
i_goto == 167

OFFSET_ICONST == 3
OFFSET_ILOAD == 26
OFFSET_ALOAD == 42
OFFSET_ASTORE == 75
OFFSET_ISTORE == 59

\* Constant-pool tags (read_class.h), as get_constant_pool's switch names them
CONSTANT_Utf8 == 1
CONSTANT_Integer == 3
CONSTANT_Class == 7
CONSTANT_Fieldref == 9
CONSTANT_Methodref == 10
CONSTANT_NameAndType == 12

\* find_method's "not found"
NULL == 0

MAIN_METHOD == <<"m", "a", "i", "n">>

MAIN_DESCRIPTOR ==
    <<"(", "[", "L", "j", "a", "v", "a", "/", "l", "a", "n", "g", "/",
      "S", "t", "r", "i", "n", "g", ";", ")", "V">>

----------------------------------------------------------------------------
(* read_class.c: constant-pool and method lookups *)

\* the pool is scanned up to its NULL-info terminator: the entries read
constant_pool_size(constant_pool) == Len(constant_pool)

\* get_constant's assertion
ValidConstantIndex(constant_pool, index) ==
    0 < index /\ index <= constant_pool_size(constant_pool)

get_constant(constant_pool, index) == constant_pool[index]

\* position (1-based) of the first c in s, 0 when there is none
RECURSIVE strchrFrom(_, _, _)
strchrFrom(s, c, i) ==
    IF i > Len(s) THEN 0
    ELSE IF s[i] = c THEN i
    ELSE strchrFrom(s, c, i + 1)

strchr(s, c) == strchrFrom(s, c, 1)

\* the for loop of get_number_of_parameters: start and end are positions
RECURSIVE CountParameters(_, _, _, _)
CountParameters(descriptor, start, end, params) ==
    IF start < end
    THEN LET skipped == IF descriptor[start] = "[" THEN start + 1 ELSE start
         IN CountParameters(descriptor, skipped + 1, end, (params + 1) % 65536)
    ELSE params

get_number_of_parameters(method) ==
    CountParameters(method.descriptor,
                    strchr(method.descriptor, "(") + 1,
                    strchr(method.descriptor, ")"),
                    0)

RECURSIVE find_method_from(_, _, _, _)
find_method_from(name, descriptor, methods, i) ==
    IF i > Len(methods) THEN NULL
    ELSE IF methods[i].name = name /\ methods[i].descriptor = descriptor THEN i
    ELSE find_method_from(name, descriptor, methods, i + 1)

\* the index (1-based) of the first method with that name and descriptor
find_method(name, descriptor, cls) ==
    find_method_from(name, descriptor, cls.methods, 1)

\* some assertion of get_method_name_and_type fails
NameAndTypeFatal(constant_pool, index) ==
    \/ ~ValidConstantIndex(constant_pool, index)
    \/ get_constant(constant_pool, index).tag # CONSTANT_Methodref
    \/ LET nt == get_constant(constant_pool, index).info.name_and_type_index
       IN \/ ~ValidConstantIndex(constant_pool, nt)
          \/ get_constant(constant_pool, nt).tag # CONSTANT_NameAndType

get_method_name_and_type(constant_pool, index) ==
    get_constant(constant_pool,
                 get_constant(constant_pool, index).info.name_and_type_index).info

\* some assertion on the way through find_method_from_index fails
MethodIndexFatal(index, cls) ==
    \/ NameAndTypeFatal(cls.constant_pool, index)
    \/ LET name_and_type == get_method_name_and_type(cls.constant_pool, index)
       IN \/ ~ValidConstantIndex(cls.constant_pool, name_and_type.name_index)
          \/ get_constant(cls.constant_pool, name_and_type.name_index).tag
                 # CONSTANT_Utf8
          \/ ~ValidConstantIndex(cls.constant_pool, name_and_type.descriptor_index)
          \/ get_constant(cls.constant_pool, name_and_type.descriptor_index).tag
                 # CONSTANT_Utf8

find_method_from_index(index, cls) ==
    LET name_and_type == get_method_name_and_type(cls.constant_pool, index)
    IN find_method(get_constant(cls.constant_pool, name_and_type.name_index).info,
                   get_constant(cls.constant_pool, name_and_type.descriptor_index).info,
                   cls)

----------------------------------------------------------------------------
(* read_class.c: reading the class file.  The files of the model hold no    *)
(* length field of 2^31 or more.                                            *)

\* the FILE once main has closed it, and the loader once it has returned
Closed == [bytes |-> <<>>, pos |-> 0]

Returned == [fn |-> "none"]

\* fewer than n bytes are left: a read of n bytes meets the end of the file
AtEOF(f, n) == f.pos + n > Len(f.bytes)

\* the byte k places after the position
Byte(f, k) == f.bytes[f.pos + k + 1]

\* the values read_u1, read_u2 and read_u4 return at the position
read_u1(f) == Byte(f, 0)

read_u2(f) == Byte(f, 0) * 256 + Byte(f, 1)

read_u4(f) == read_u2(f) * 65536 + Byte(f, 2) * 256 + Byte(f, 3)

\* the FILE after n bytes were read, and after fseek(class_file, to, SEEK_SET)
Skip(f, n) == [f EXCEPT !.pos = @ + n]

\* a faulty variant: the position stays where the reads left it
fseek_notMoved(f, to) == f

fseek(f, to) == [f EXCEPT !.pos = to]

\* the n bytes from the position on
fread(f, n) == SubSeq(f.bytes, f.pos + 1, f.pos + n)

----------------------------------------------------------------------------
(* heap.c *)

heap_init == [ptr |-> <<>>, count |-> 0]

\* a faulty variant: the new entry is put first, moving the old ones up
heap_add_atFront(h, ptr) == [ptr |-> <<ptr>> \o h.ptr, count |-> h.count + 1]

\* the table after heap_add: realloc keeps the old entries, the new one is last
heap_add(h, ptr) == [ptr |-> Append(h.ptr, ptr), count |-> h.count + 1]

\* a faulty variant: the count after the increment is returned
heap_add_ref_incremented(h) == h.count + 1

\* heap_add's return value
heap_add_ref(h) == h.count

\* the table holds entries 0 .. count-1
ValidRef(h, ref) == 0 <= ref /\ ref < Len(h.ptr)

heap_get(h, ref) == h.ptr[ref + 1]

----------------------------------------------------------------------------
(* jvm.c: conversions of operand bytes *)

\* a faulty variant: the two operand bytes are taken as an unsigned value
Int16_unsigned(w) == w

\* the conversion of a value 0 .. 65535 to int16_t
Int16(w) == IF w >= 32768 THEN w - 65536 ELSE w

----------------------------------------------------------------------------
(* jvm.c: int32_t arithmetic.  A value is the integer it denotes; results   *)
(* are computed on 16-bit halves so that no intermediate result leaves the  *)
(* range of int32_t.                                                        *)

INT32_MAX == 2147483647

INT32_MIN == -INT32_MAX - 1

Lo16(x) == x % 65536

Hi16(x) == x \div 65536

\* the int32_t whose high half is hi modulo 2^16 and whose low half is lo
Int32(hi, lo) == Int16(hi % 65536) * 65536 + lo

\* a + b, a - b, -a and a * b modulo 2^32
add32(a, b) ==
    LET lo == Lo16(a) + Lo16(b)
    IN Int32(Hi16(a) + Hi16(b) + (lo \div 65536), lo % 65536)

sub32(a, b) ==
    LET lo == Lo16(a) - Lo16(b)
    IN Int32(Hi16(a) - Hi16(b) + (lo \div 65536), lo % 65536)

neg32(a) == sub32(0, a)

\* from the products of the halves: the low halves are multiplied byte by
\* 16 bits, y * 256 + x being their product
mul32(a, b) ==
    LET x == (Lo16(a) % 256) * Lo16(b)
        y == (Lo16(a) \div 256) * Lo16(b)
        z == x + (y % 256) * 256
    IN Int32(((Hi16(a) * Lo16(b)) % 65536) + ((Lo16(a) * Hi16(b)) % 65536)
                 + (y \div 256) + (z \div 65536),
             z % 65536)

\* the mathematical result is not an int32_t: undefined in C
AddOverflows(a, b) ==
    \/ b > 0 /\ a > INT32_MAX - b
    \/ b < 0 /\ a < INT32_MIN - b

SubOverflows(a, b) ==
    \/ b < 0 /\ a > INT32_MAX + b
    \/ b > 0 /\ a < INT32_MIN + b

Magnitude(a) == IF a < 0 THEN -a ELSE a

MulOverflows(a, b) ==
    IF a = 0 \/ b = 0 THEN FALSE
    ELSE IF a = INT32_MIN THEN b # 1
    ELSE IF b = INT32_MIN THEN a # 1
    ELSE LET m == Magnitude(a)
             n == Magnitude(b)
         IN /\ m > INT32_MAX \div n
            /\ ~(/\ (a < 0) # (b < 0)
                 /\ INT32_MAX % n = n - 1
                 /\ m = (INT32_MAX \div n) + 1)

\* a / b and a % b of C for b # 0 and a quotient that is an int32_t:
\* the quotient is truncated toward zero
TruncatedQuotient(a, n) ==
    IF a < 0 /\ a % n # 0 THEN (a \div n) + 1 ELSE a \div n

div32(a, b) ==
    IF b > 0 THEN TruncatedQuotient(a, b)
    ELSE IF b = INT32_MIN THEN (IF a = INT32_MIN THEN 1 ELSE 0)
    ELSE -TruncatedQuotient(a, -b)

rem32(a, b) == a - b * div32(a, b)

\* bit by bit, on the two's complement representation
RECURSIVE and32(_, _)
and32(a, b) ==
    IF a = 0 \/ b = 0 THEN 0
    ELSE IF a = -1 THEN b
    ELSE IF b = -1 THEN a
    ELSE 2 * and32(a \div 2, b \div 2) + (a % 2) * (b % 2)

RECURSIVE or32(_, _)
or32(a, b) ==
    IF a = 0 THEN b
    ELSE IF b = 0 THEN a
    ELSE IF a = -1 \/ b = -1 THEN -1
    ELSE 2 * or32(a \div 2, b \div 2) + (IF a % 2 = 1 \/ b % 2 = 1 THEN 1 ELSE 0)

RECURSIVE xor32(_, _)
xor32(a, b) ==
    IF a = 0 THEN b
    ELSE IF b = 0 THEN a
    ELSE IF a = -1 THEN -1 - b
    ELSE IF b = -1 THEN -1 - a
    ELSE 2 * xor32(a \div 2, b \div 2) + (IF a % 2 = b % 2 THEN 0 ELSE 1)

\* 2^n for n in 0 .. 30
RECURSIVE Pow2(_)
Pow2(n) == IF n = 0 THEN 1 ELSE 2 * Pow2(n - 1)

\* value << n, value >> n (arithmetic) and (uint32_t) value >> n, for n in 0 .. 31
shl32(value, n) ==
    IF n = 31 THEN (IF value % 2 = 1 THEN INT32_MIN ELSE 0) ELSE mul32(value, Pow2(n))

shr32(value, n) == IF n = 31 THEN (IF value < 0 THEN -1 ELSE 0) ELSE value \div Pow2(n)

ushr32(value, n) ==
    IF n = 0 \/ value >= 0 THEN shr32(value, n)
    ELSE ((value \div 2) + INT32_MAX + 1) \div Pow2(n - 1)

----------------------------------------------------------------------------
(* The class files the runs are drawn from *)

\* the bytes of the Utf8 entries and descriptors, one character per element
Chars_sel == <<"s", "e", "l">>
Chars_pr == <<"p", "r">>
Chars_mk == <<"m", "k">>
Chars_get == <<"g", "e", "t">>
Chars_Code == <<"C", "o", "d", "e">>
Desc_III_I == <<"(", "I", "I", "I", ")", "I">>
Desc_I_V == <<"(", "I", ")", "V">>
Desc_I_arr == <<"(", "I", ")", "[", "I">>
Desc_I_I == <<"(", "I", ")", "I">>

Utf8(bytes) == [tag |-> CONSTANT_Utf8, info |-> bytes]

NameAndType(n, d) ==
    [tag |-> CONSTANT_NameAndType, info |-> [name_index |-> n, descriptor_index |-> d]]

Methodref(c, nt) ==
    [tag |-> CONSTANT_Methodref, info |-> [class_index |-> c, name_and_type_index |-> nt]]

\* the value of an Integer entry, as the int32_t that ldc pushes
Integer(bytes) == [tag |-> CONSTANT_Integer, info |-> [bytes |-> bytes]]

\* entries 1..3, then for the j-th static method (j = 1..4) its name,
\* descriptor, NameAndType and Methodref at 4j, 4j+1, 4j+2, 4j+3, then
\* three Integer entries at 20..22, a Methodref whose name_and_type_index is
\* 0 at 23, and at 24 a Methodref to the NameAndType at 25, whose name_index is 0
TestPool ==
    << Utf8(MAIN_METHOD), Utf8(MAIN_DESCRIPTOR), Utf8(Chars_Code),
       Utf8(Chars_sel), Utf8(Desc_III_I), NameAndType(4, 5), Methodref(0, 6),
       Utf8(Chars_pr), Utf8(Desc_I_V), NameAndType(8, 9), Methodref(0, 10),
       Utf8(Chars_mk), Utf8(Desc_I_arr), NameAndType(12, 13), Methodref(0, 14),
       Utf8(Chars_get), Utf8(Desc_I_I), NameAndType(16, 17), Methodref(0, 18),
       Integer(INT32_MAX), Integer(INT32_MIN), Integer(65536),
       Methodref(0, 0), Methodref(0, 25), NameAndType(0, 5) >>

MethodOf(name, descriptor, max_stack, max_locals, code) ==
    [name |-> name, descriptor |-> descriptor,
     code |-> [max_stack |-> max_stack, max_locals |-> max_locals,
               code_length |-> Len(code), code |-> code]]

\* sel(a, b, c) returns b
Method_sel == MethodOf(Chars_sel, Desc_III_I, 1, 3, <<i_iload_1, i_ireturn>>)

\* pr(a) prints a, keeps a copy in local 1, returns void
Method_pr ==
    MethodOf(Chars_pr, Desc_I_V, 2, 2,
             <<i_nop, i_getstatic, 0, 0, i_iload_0, i_dup, i_istore_1,
               i_invokevirtual, 0, 0, i_return>>)

\* mk(n) returns a new array of n elements
Method_mk ==
    MethodOf(Chars_mk, Desc_I_arr, 1, 3,
             <<i_iload_0, i_newarray, 10, i_astore, 2, i_aload, 2, i_areturn>>)

\* get(a) returns its local 1, which it never stores
Method_get ==
    MethodOf(Chars_get, Desc_I_I, 1, 6,
             <<i_iload, 1, i_istore, 0, i_iload, 0, i_ireturn>>)

\* the instruction blocks main is put together from
Blocks ==
    { <<i_iconst_2, i_newarray, 10, i_astore_1>>,
      <<i_iconst_0, i_newarray, 10, i_dup, i_astore_2,
        i_arraylength, i_invokevirtual, 0, 0>>,
      <<i_iconst_m1, i_invokestatic, 0, 15, i_astore_2>>,
      <<i_aload_1, i_iconst_0, i_bipush, 7, i_iastore>>,
      <<i_aload_1, i_iconst_m1, i_bipush, 9, i_iastore>>,
      <<i_aload_2, i_iconst_1, i_iconst_3, i_iastore>>,
      <<i_aload_1, i_iconst_0, i_iaload, i_invokevirtual, 0, 0>>,
      <<i_aload_1, i_arraylength, i_invokevirtual, 0, 0>>,
      <<i_iconst_1, i_iconst_2, i_iconst_3, i_invokestatic, 0, 7,
        i_invokevirtual, 0, 0>>,
      <<i_iconst_4, i_invokestatic, 0, 11>>,
      <<i_iconst_3, i_invokestatic, 0, 19, i_invokevirtual, 0, 0>>,
      <<i_iconst_5>>,
      <<i_invokevirtual, 0, 0>>,
      <<i_bipush>> }

RECURSIVE Programs(_)
Programs(n) ==
    IF n = 0 THEN {<<>>}
    ELSE Programs(n - 1) \cup {p \o b : p \in Programs(n - 1), b \in Blocks}

\* instructions that leave one value on the stack
PushInstrs ==
    { <<i_iconst_m1>>, <<i_iconst_0>>, <<i_iconst_1>>,
      <<i_bipush, 33>>, <<i_bipush, 32>>, <<i_bipush, 255>>, <<i_bipush, 128>>,
      <<i_sipush, 128, 0>>, <<i_sipush, 127, 255>>,
      <<i_ldc, 20>>, <<i_ldc, 21>>, <<i_ldc, 22>> }

\* main pushes two values, combines them and prints the result; or pushes
\* one value, negates it and prints the result
ArithPrograms ==
    {a \o b \o <<op, i_invokevirtual, 0, 0>> :
         a \in PushInstrs, b \in PushInstrs,
         op \in {i_iadd, i_isub, i_imul, i_idiv, i_irem, i_iand, i_ior, i_ixor,
                 i_ishl, i_ishr, i_iushr}}
    \cup {a \o <<i_ineg, i_invokevirtual, 0, 0>> : a \in PushInstrs}

ComparedInstrs ==
    { <<i_iconst_m1>>, <<i_iconst_0>>, <<i_iconst_1>>, <<i_ldc, 20>>, <<i_ldc, 21>> }

\* the operand bytes of the branches: 3, 5, 0, -3, -32768, 32767
Offsets == { <<0, 3>>, <<0, 5>>, <<0, 0>>, <<255, 253>>, <<128, 0>>, <<127, 255>> }

\* what follows a branch: the fall-through at +3, another target at +5
AfterBranch == <<i_iconst_4, i_istore_1, i_iconst_5, i_istore_2, i_return>>

BranchPrograms ==
    {a \o b \o <<op>> \o o \o AfterBranch :
         a \in ComparedInstrs, b \in ComparedInstrs, o \in Offsets,
         op \in {i_if_icmpeq, i_if_icmpne, i_if_icmplt, i_if_icmpge,
                 i_if_icmpgt, i_if_icmple}}
    \cup {a \o <<op>> \o o \o AfterBranch :
             a \in ComparedInstrs, o \in Offsets,
             op \in {i_ifeq, i_ifne, i_iflt, i_ifge, i_ifgt, i_ifle, i_goto}}

\* further mains: a counting loop, iinc on its own, ldc of entries that are
\* not Integer or not in the pool, invokestatic of entries that are not
\* methods, bytes that are no opcode, mains that return, truncated code
Extras ==
    { <<i_iconst_3, i_istore_1, i_iinc, 1, 255, i_iload_1, i_ifne, 255, 252, i_return>>,
      <<i_iinc, 1, 1, i_iload_1, i_invokevirtual, 0, 0>>,
      <<i_iinc, 1, 128, i_iload_1, i_invokevirtual, 0, 0>>,
      <<i_ldc, 20, i_istore_1, i_iinc, 1, 1, i_iload_1, i_invokevirtual, 0, 0>>,
      <<i_iinc, 9, 1>>,
      <<i_iconst_5, i_ldc, 1, i_invokevirtual, 0, 0>>,
      <<i_iconst_5, i_ldc, 0, i_invokevirtual, 0, 0>>,
      <<i_iconst_5, i_ldc, 26, i_invokevirtual, 0, 0>>,
      <<i_iconst_5, i_ldc, 255, i_invokevirtual, 0, 0>>,
      <<i_iconst_5, i_invokestatic, 0, 0>>,
      <<i_iconst_5, i_invokestatic, 0, 26>>,
      <<i_iconst_5, i_invokestatic, 0, 23>>,
      <<i_iconst_5, i_invokestatic, 0, 24>>,
      <<i_iconst_5, i_invokestatic, 0, 1>>,
      <<i_iconst_5, i_invokestatic, 1, 7>>,
      <<i_iconst_1, 202, i_return>>,
      <<i_iconst_5, i_invokevirtual, 0, 0, 1, i_iconst_5, i_invokevirtual, 0, 0>>,
      <<i_iconst_5, i_ireturn>>,
      <<i_iconst_2, i_newarray, 10, i_areturn>>,
      <<i_iconst_1, i_invokevirtual, 0, 0, i_return, i_iconst_2>>,
      <<i_ireturn>>,
      <<i_sipush, 1>>, <<i_ldc>>, <<i_iinc, 1>>, <<i_iconst_0, i_ifeq, 0>>, <<i_goto>> }

ClassWith(code) ==
    [constant_pool |-> TestPool,
     methods |-> << MethodOf(MAIN_METHOD, MAIN_DESCRIPTOR, 3, 3, code),
                    Method_sel, Method_pr, Method_mk, Method_get >>]

\* the class of the first method of a class that has no entry method: its
\* name or its descriptor is not the one the driver looks for
Desc_main_I ==
    <<"(", "[", "L", "j", "a", "v", "a", "/", "l", "a", "n", "g", "/",
      "S", "t", "r", "i", "n", "g", ";", ")", "I">>

ClassWithout(name, descriptor) ==
    [constant_pool |-> TestPool,
     methods |-> << MethodOf(name, descriptor, 3, 3,
                             <<i_iconst_5, i_invokevirtual, 0, 0, i_return>>),
                    Method_sel, Method_pr, Method_mk, Method_get >>]

ClassesWithoutMain ==
    { ClassWithout(MAIN_METHOD, Desc_main_I),
      ClassWithout(MAIN_METHOD, Desc_I_V),
      ClassWithout(<<"M", "a", "i", "n">>, MAIN_DESCRIPTOR),
      ClassWithout(<<"m", "a", "i", "n", "2">>, MAIN_DESCRIPTOR) }

\* rec(n) ends at once when n is 0, by a branch to the end of its code;
\* otherwise it stores n in its local 1, decrements its local 0, pushes n,
\* calls rec(n - 1) above it, prints the n it kept on its stack and runs off
\* the end of its code
Method_rec ==
    MethodOf(<<"r", "e", "c">>, Desc_I_V, 2, 2,
             <<i_iload_0, i_ifeq, 0, 16, i_iload_0, i_istore_1, i_iinc, 0, 255,
               i_iload_1, i_iload_0, i_invokestatic, 0, 7,
               i_invokevirtual, 0, 0>>)

\* classes whose main keeps depth in local 1 and 5 on its stack across the
\* call rec(depth), then prints both and runs off the end of its code
RecursiveClasses ==
    { [constant_pool |->
           << Utf8(MAIN_METHOD), Utf8(MAIN_DESCRIPTOR), Utf8(Chars_Code),
              Utf8(<<"r", "e", "c">>), Utf8(Desc_I_V), NameAndType(4, 5),
              Methodref(0, 6) >>,
       methods |->
           << MethodOf(MAIN_METHOD, MAIN_DESCRIPTOR, 3, 3,
                       <<i_iconst_0 + depth, i_istore_1, i_iconst_5, i_iload_1,
                         i_invokestatic, 0, 7, i_invokevirtual, 0, 0,
                         i_iload_1, i_invokevirtual, 0, 0>>),
              Method_rec >>] : depth \in {0, 2} }

Classes ==
    {ClassWith(code) :
         code \in Programs(MaxBlocks) \cup ArithPrograms \cup BranchPrograms \cup Extras}
    \cup ClassesWithoutMain \cup RecursiveClasses

----------------------------------------------------------------------------
(* jvm.c: frames *)

Int8(b) == IF b >= 128 THEN b - 256 ELSE b

\* the frame of the activation in progress, its method and its bytecode
Top == frames[Len(frames)]

MethodOfFrame(f) == class.methods[f.method]

max_stack(f) == MethodOfFrame(f).code.max_stack

code_length(f) == MethodOfFrame(f).code.code_length

bytecode(f, i) == MethodOfFrame(f).code.code[i + 1]

\* pc is a u4, and pc + offset is computed modulo 2^32: a frame keeps the
\* value 2^32 - k that a backward branch beyond address 0 leaves as -k.
\* the loop condition of execute, pc < code_length, on that u4
WithinCode(f) == 0 <= f.pc /\ f.pc < code_length(f)

\* the loop condition of execute, in the innermost activation
InLoop == status = "running" /\ frames # <<>> /\ WithinCode(Top)

instruction == bytecode(Top, Top.pc)

\* the two operand bytes at pc + 1 and pc + 2, high byte first
Operand16(f) == bytecode(f, f.pc + 1) * 256 + bytecode(f, f.pc + 2)

\* the n bytes after the opcode lie inside the code buffer
HasOperands(n) == Top.pc + n < code_length(Top)

\* how many bytes of 4-byte slot i a memset of n bytes from slot 0 clears
ZeroedBytes(n, i) ==
    IF n >= 4 * i + 4 THEN 4
    ELSE IF n <= 4 * i THEN 0
    ELSE n - 4 * i

\* 256^z
RECURSIVE ByteWeight(_)
ByteWeight(z) == IF z = 0 THEN 1 ELSE 256 * ByteWeight(z - 1)

\* values an int32 slot may hold when only its z low-order bytes were cleared
Indeterminate(z) ==
    IF z >= 4 THEN {0} ELSE {0, ByteWeight(z), -ByteWeight(z)}

\* execute's prologue: a zeroed operand stack, stack_pointer -1, pc 0, over
\* the locals the caller hands in.  fresh[i]: slot i was never assigned, so
\* it holds what the allocation and the memset of `cleared` bytes left there
Activation(method, locals, fresh, cleared) ==
    [method |-> method,
     pc |-> 0,
     stack_pointer |-> -1,
     operand_stack |-> [i \in 0 .. (class.methods[method].code.max_stack - 1) |-> 0],
     locals |-> locals,
     fresh |-> fresh,
     cleared |-> cleared]

\* the stack slot push would write, and the slots n pops would read, exist
CanPush(f) == (f.stack_pointer + 1) \in DOMAIN f.operand_stack

CanPop(f, n) ==
    \A d \in 0 .. (n - 1) : (f.stack_pointer - d) \in DOMAIN f.operand_stack

\* the value d slots below the top
Peek(f, d) == f.operand_stack[f.stack_pointer - d]

push(f, value) ==
    [f EXCEPT !.stack_pointer = @ + 1,
              !.operand_stack =
                  IF CanPush(f) THEN [@ EXCEPT ![f.stack_pointer + 1] = value] ELSE @]

\* the frame with stack_pointer moved by d, no slot written
Moved(f, d) == [f EXCEPT !.stack_pointer = @ + d]

\* the frame after n pops
pop(f, n) == Moved(f, -n)

Advance(f, n) == [f EXCEPT !.pc = @ + n]

ValidLocal(f, index) == index \in DOMAIN f.locals

\* what a read of locals[index] may yield
LocalValues(f, index) ==
    IF f.fresh[index]
    THEN Indeterminate(ZeroedBytes(f.cleared, index))
    ELSE {f.locals[index]}

\* the frame after locals[index] was read as value, or assigned value
WithLocal(f, index, value) ==
    [f EXCEPT !.locals[index] = value, !.fresh[index] = FALSE]

\* a faulty variant: the activation works on the locals array of its caller,
\* so what it has in a local shows in the caller's local of that index
Continue_callersLocals(f, ok) ==
    /\ frames' =
           [k \in 1 .. Len(frames) |->
               IF k = Len(frames) THEN f
               ELSE IF k = Len(frames) - 1
               THEN [frames[k] EXCEPT
                        !.locals = [i \in DOMAIN @ |->
                                       IF i \in DOMAIN f.locals
                                       THEN f.locals[i] ELSE @[i]]]
               ELSE frames[k]]
    /\ status' = IF ok THEN "running" ELSE "undefined"

\* the handler ends with the innermost frame as f; ok: it stayed inside its objects
Continue(f, ok) ==
    /\ frames' = [frames EXCEPT ![Len(frames)] = f]
    /\ status' = IF ok THEN "running" ELSE "undefined"

\* a faulty variant: the caller pushes the result without looking at has_value
Return_alwaysPushes(has_value, value) ==
    IF Len(frames) = 1
    THEN /\ frames' = <<>>
         /\ result' = [has_value |-> has_value, value |-> value]
         /\ status' = "returned"
    ELSE LET caller == frames[Len(frames) - 1]
         IN /\ frames' = Append(SubSeq(frames, 1, Len(frames) - 2),
                                Advance(push(caller, value), 2))
            /\ status' = IF ~CanPush(caller) THEN "undefined" ELSE "running"
            /\ UNCHANGED result

\* execute returns: main's result goes to the driver; a callee's result goes
\* to the rest of the caller's invokestatic handler (push if has_value, pc += 2)
Return(has_value, value) ==
    IF Len(frames) = 1
    THEN /\ frames' = <<>>
         /\ result' = [has_value |-> has_value, value |-> value]
         /\ status' = "returned"
    ELSE LET caller == frames[Len(frames) - 1]
             pushed == IF has_value THEN push(caller, value) ELSE caller
         IN /\ frames' = Append(SubSeq(frames, 1, Len(frames) - 2),
                                Advance(pushed, 2))
            /\ status' = IF has_value /\ ~CanPush(caller)
                         THEN "undefined" ELSE "running"
            /\ UNCHANGED result

----------------------------------------------------------------------------
(* jvm.c: main up to the call of execute.  Without an entry method the    *)
(* assertion on find_method's result ends the run before execute is called *)

Init ==
    /\ class_file = Closed
    /\ loader = Returned
    /\ class \in Classes
    /\ heap = heap_init
    /\ memory = <<>>
    /\ out = <<>>
    /\ result = [has_value |-> FALSE, value |-> 0]
    /\ LET main_method == find_method(MAIN_METHOD, MAIN_DESCRIPTOR, class)
       IN IF main_method = NULL
          THEN /\ status = "fatal"
               /\ frames = <<>>
          ELSE LET n == class.methods[main_method].code.max_locals
               IN /\ status = "running"
                  /\ frames = << Activation(main_method,
                                            [i \in 0 .. (n - 1) |-> 0],
                                            [i \in 0 .. (n - 1) |-> TRUE],
                                            4 * n) >>

----------------------------------------------------------------------------
(* jvm.c: the cases of execute's switch *)

\* case i_bipush
Bipush ==
    /\ InLoop /\ instruction = i_bipush /\ HasOperands(1)
    /\ Continue(Advance(push(Top, Int8(bytecode(Top, Top.pc + 1))), 2), CanPush(Top))
    /\ UNCHANGED <<class_file, loader, class, heap, memory, out, result>>

\* case i_getstatic
Getstatic ==
    /\ InLoop /\ instruction = i_getstatic
    /\ Continue(Advance(Top, 3), TRUE)
    /\ UNCHANGED <<class_file, loader, class, heap, memory, out, result>>

\* a faulty variant: the line is put before the earlier output
printf_atFront(stdout, val) == <<val>> \o stdout

\* the standard output after printf("%d\n", val)
printf(stdout, val) == Append(stdout, val)

\* case i_invokevirtual
Invokevirtual ==
    /\ InLoop /\ instruction = i_invokevirtual
    /\ IF CanPop(Top, 1)
       THEN /\ out' = printf(out, Peek(Top, 0))
            /\ Continue(Advance(pop(Top, 1), 3), TRUE)
       ELSE /\ out' = out
            /\ Continue(pop(Top, 1), FALSE)
    /\ UNCHANGED <<class_file, loader, class, heap, memory, result>>

\* case i_iconst_m1 .. i_iconst_5
Iconst ==
    /\ InLoop /\ instruction \in i_iconst_m1 .. i_iconst_5
    /\ Continue(Advance(push(Top, instruction - OFFSET_ICONST), 1), CanPush(Top))
    /\ UNCHANGED <<class_file, loader, class, heap, memory, out, result>>

\* push(locals[index]) and pc += width, shared by the load cases
Load(index, width) ==
    IF ValidLocal(Top, index)
    THEN \E value \in LocalValues(Top, index) :
             Continue(Advance(push(WithLocal(Top, index, value), value), width),
                      CanPush(Top))
    ELSE Continue(Moved(Top, 1), FALSE)

\* locals[index] = pop() and pc += width, shared by the store cases
Store(index, width) ==
    IF ValidLocal(Top, index) /\ CanPop(Top, 1)
    THEN Continue(Advance(pop(WithLocal(Top, index, Peek(Top, 0)), 1), width), TRUE)
    ELSE Continue(pop(Top, 1), FALSE)

\* case i_iload
Iload ==
    /\ InLoop /\ instruction = i_iload /\ HasOperands(1)
    /\ Load(bytecode(Top, Top.pc + 1), 2)
    /\ UNCHANGED <<class_file, loader, class, heap, memory, out, result>>

\* case i_istore
Istore ==
    /\ InLoop /\ instruction = i_istore /\ HasOperands(1)
    /\ Store(bytecode(Top, Top.pc + 1), 2)
    /\ UNCHANGED <<class_file, loader, class, heap, memory, out, result>>

\* case i_iload_0 .. i_iload_3
Iload_n ==
    /\ InLoop /\ instruction \in i_iload_0 .. i_iload_3
    /\ Load(instruction - OFFSET_ILOAD, 1)
    /\ UNCHANGED <<class_file, loader, class, heap, memory, out, result>>

\* case i_istore_0 .. i_istore_3
Istore_n ==
    /\ InLoop /\ instruction \in i_istore_0 .. i_istore_3
    /\ Store(instruction - OFFSET_ISTORE, 1)
    /\ UNCHANGED <<class_file, loader, class, heap, memory, out, result>>

\* case i_aload
Aload ==
    /\ InLoop /\ instruction = i_aload /\ HasOperands(1)
    /\ Load(bytecode(Top, Top.pc + 1), 2)
    /\ UNCHANGED <<class_file, loader, class, heap, memory, out, result>>

\* case i_astore
Astore ==
    /\ InLoop /\ instruction = i_astore /\ HasOperands(1)
    /\ Store(bytecode(Top, Top.pc + 1), 2)
    /\ UNCHANGED <<class_file, loader, class, heap, memory, out, result>>

\* case i_aload_0 .. i_aload_3
Aload_n ==
    /\ InLoop /\ instruction \in i_aload_0 .. i_aload_3
    /\ Load(instruction - OFFSET_ALOAD, 1)
    /\ UNCHANGED <<class_file, loader, class, heap, memory, out, result>>

\* case i_astore_0 .. i_astore_3
Astore_n ==
    /\ InLoop /\ instruction \in i_astore_0 .. i_astore_3
    /\ Store(instruction - OFFSET_ASTORE, 1)
    /\ UNCHANGED <<class_file, loader, class, heap, memory, out, result>>

\* case i_nop
Nop ==
    /\ InLoop /\ instruction = i_nop
    /\ Continue(Advance(Top, 1), TRUE)
    /\ UNCHANGED <<class_file, loader, class, heap, memory, out, result>>

\* case i_dup
Dup ==
    /\ InLoop /\ instruction = i_dup
    /\ IF CanPop(Top, 1)
       THEN Continue(Advance(push(Top, Peek(Top, 0)), 1), CanPush(Top))
       ELSE Continue(Moved(Top, 1), FALSE)
    /\ UNCHANGED <<class_file, loader, class, heap, memory, out, result>>

\* case i_ireturn
Ireturn ==
    /\ InLoop /\ instruction = i_ireturn
    /\ IF CanPop(Top, 1)
       THEN Return(TRUE, Peek(Top, 0))
       ELSE Continue(Advance(pop(Top, 1), 1), FALSE) /\ UNCHANGED result
    /\ UNCHANGED <<class_file, loader, class, heap, memory, out>>

\* case i_areturn
Areturn ==
    /\ InLoop /\ instruction = i_areturn
    /\ IF CanPop(Top, 1)
       THEN Return(TRUE, Peek(Top, 0))
       ELSE Continue(Advance(pop(Top, 1), 1), FALSE) /\ UNCHANGED result
    /\ UNCHANGED <<class_file, loader, class, heap, memory, out>>

\* case i_return
ReturnVoid ==
    /\ InLoop /\ instruction = i_return
    /\ Return(FALSE, 0)
    /\ UNCHANGED <<class_file, loader, class, heap, memory, out>>

\* the loop ends because pc reached code_length: "Return void"
\* a faulty variant: the result after the loop says it has a value
ResultAfterLoop_valued(value) == [has_value |-> TRUE, value |-> value]

\* optional_value_t result = {.has_value = false}
ResultAfterLoop(value) == [has_value |-> FALSE, value |-> value]

FallOffEnd ==
    /\ status = "running" /\ frames # <<>> /\ ~WithinCode(Top)
    /\ Return(ResultAfterLoop(0).has_value, ResultAfterLoop(0).value)
    /\ UNCHANGED <<class_file, loader, class, heap, memory, out>>

\* a faulty variant: the arguments are taken top first
ArgumentSlot_topFirst(f, num_params, i) == f.stack_pointer - i

\* the caller's stack slot that the loop of i_invokestatic pops into
\* method_locals[i], for a callee of num_params parameters
ArgumentSlot(f, num_params, i) == f.stack_pointer - (num_params - 1 - i)

\* case i_invokestatic, up to the recursive call of execute
Invokestatic ==
    /\ InLoop /\ instruction = i_invokestatic /\ HasOperands(2)
    /\ LET f == Top
           index == bytecode(f, f.pc + 1) * 256 + bytecode(f, f.pc + 2)
       IN IF MethodIndexFatal(index, class)
          THEN /\ frames' = [frames EXCEPT ![Len(frames)] = Advance(f, 1)]
               /\ status' = "fatal"
          ELSE LET called_method == find_method_from_index(index, class)
               IN IF called_method = NULL
                  THEN Continue(Advance(f, 1), FALSE)
                  ELSE LET num_params ==
                               get_number_of_parameters(class.methods[called_method])
                           n == class.methods[called_method].code.max_locals
                           caller == Advance(pop(f, num_params), 1)
                       IN IF num_params <= n /\ CanPop(f, num_params)
                          THEN /\ frames' =
                                    Append([frames EXCEPT ![Len(frames)] = caller],
                                           Activation(called_method,
                                               [i \in 0 .. (n - 1) |->
                                                   IF i < num_params
                                                   THEN f.operand_stack[
                                                            ArgumentSlot(f, num_params, i)]
                                                   ELSE 0],
                                               [i \in 0 .. (n - 1) |-> i >= num_params],
                                               n))
                               /\ status' = "running"
                          ELSE Continue(caller, FALSE)
    /\ UNCHANGED <<class_file, loader, class, heap, memory, out, result>>

\* a faulty variant: count slots are allocated, not count + 1
new_array_countSlots(count) ==
    [i \in 0 .. (IF count <= 1 THEN 0 ELSE count - 1) |-> IF i = 0 THEN count ELSE 0]

\* the array i_newarray allocates and fills for a popped count
new_array(count) ==
    [i \in 0 .. (IF count <= 0 THEN 0 ELSE count) |-> IF i = 0 THEN count ELSE 0]

\* a faulty variant: the index is used as it is
ElementSlot_unshifted(index) == index

\* the slot of an array that iaload and iastore address for an index
ElementSlot(index) == index + 1

\* a faulty variant: the length is taken from the size of the allocation
array_length_fromSize(array) == Cardinality(DOMAIN array) - 1

\* the count i_arraylength reads from an array
array_length(array) == array[0]

\* the array a reference denotes
ArrayOf(ref) == memory[heap_get(heap, ref)]

\* case i_newarray
Newarray ==
    /\ InLoop /\ instruction = i_newarray
    /\ IF CanPop(Top, 1)
       THEN /\ memory' = Append(memory, new_array(Peek(Top, 0)))
            /\ heap' = heap_add(heap, Len(memory) + 1)
            /\ Continue(Advance(push(pop(Top, 1), heap_add_ref(heap)), 2), TRUE)
       ELSE /\ Continue(pop(Top, 1), FALSE)
            /\ UNCHANGED <<heap, memory>>
    /\ UNCHANGED <<class_file, loader, class, out, result>>

\* case i_arraylength
Arraylength ==
    /\ InLoop /\ instruction = i_arraylength
    /\ IF CanPop(Top, 1) /\ ValidRef(heap, Peek(Top, 0))
       THEN Continue(Advance(push(pop(Top, 1), array_length(ArrayOf(Peek(Top, 0)))), 1),
                     TRUE)
       ELSE Continue(pop(Top, 1), FALSE)
    /\ UNCHANGED <<class_file, loader, class, heap, memory, out, result>>

\* case i_iastore
Iastore ==
    /\ InLoop /\ instruction = i_iastore
    /\ LET value == Peek(Top, 0)
           index == Peek(Top, 1)
           ref == Peek(Top, 2)
       IN IF /\ CanPop(Top, 3)
             /\ ValidRef(heap, ref)
             /\ ElementSlot(index) \in DOMAIN ArrayOf(ref)
          THEN /\ memory' = [memory EXCEPT ![heap_get(heap, ref)][ElementSlot(index)] = value]
               /\ Continue(Advance(pop(Top, 3), 1), TRUE)
          ELSE /\ memory' = memory
               /\ Continue(pop(Top, 3), FALSE)
    /\ UNCHANGED <<class_file, loader, class, heap, out, result>>

\* case i_iaload
Iaload ==
    /\ InLoop /\ instruction = i_iaload
    /\ LET index == Peek(Top, 0)
           ref == Peek(Top, 1)
       IN IF /\ CanPop(Top, 2)
             /\ ValidRef(heap, ref)
             /\ ElementSlot(index) \in DOMAIN ArrayOf(ref)
          THEN Continue(Advance(push(pop(Top, 2), ArrayOf(ref)[ElementSlot(index)]), 1),
                        TRUE)
          ELSE Continue(pop(Top, 1), FALSE)
    /\ UNCHANGED <<class_file, loader, class, heap, memory, out, result>>

\* case i_sipush
Sipush ==
    /\ InLoop /\ instruction = i_sipush /\ HasOperands(2)
    /\ Continue(Advance(push(Top, Int16(Operand16(Top))), 3), CanPush(Top))
    /\ UNCHANGED <<class_file, loader, class, heap, memory, out, result>>

\* case i_ldc: constant_pool[index - 1] is read without get_constant.  The
\* entry after the last one is the terminator, whose tag was never written:
\* it may or may not compare equal to CONSTANT_Integer, and its info is NULL
Ldc ==
    /\ InLoop /\ instruction = i_ldc /\ HasOperands(1)
    /\ LET index == bytecode(Top, Top.pc + 1)
       IN IF ValidConstantIndex(class.constant_pool, index)
          THEN LET constant == class.constant_pool[index]
               IN IF constant.tag = CONSTANT_Integer
                  THEN Continue(Advance(push(Top, constant.info.bytes), 2), CanPush(Top))
                  ELSE Continue(Advance(Top, 2), TRUE)
          ELSE IF index = constant_pool_size(class.constant_pool) + 1
          THEN \/ Continue(Advance(Top, 2), TRUE)
               \/ Continue(Advance(Top, 1), FALSE)
          ELSE Continue(Advance(Top, 1), FALSE)
    /\ UNCHANGED <<class_file, loader, class, heap, memory, out, result>>

BinaryOps == {i_iadd, i_isub, i_imul, i_idiv, i_irem, i_iand, i_ior, i_ixor}

\* the C expression has no defined value: signed overflow, division by zero,
\* or a quotient that is not an int32_t
BinaryUndefined(value1, value2, op) ==
    \/ op = i_iadd /\ AddOverflows(value1, value2)
    \/ op = i_isub /\ SubOverflows(value1, value2)
    \/ op = i_imul /\ MulOverflows(value1, value2)
    \/ op \in {i_idiv, i_irem} /\ (value2 = 0 \/ (value1 = INT32_MIN /\ value2 = -1))

\* where C defines the expression, its value; where it does not, the value
\* of a build that does not trap: the low 32 bits of the result, the
\* quotient 0 for a zero divisor
perform_binary_operation(value1, value2, op) ==
    CASE op = i_iadd -> add32(value1, value2)
      [] op = i_isub -> sub32(value1, value2)
      [] op = i_imul -> mul32(value1, value2)
      [] op = i_idiv -> IF value2 = 0 THEN 0
                        ELSE IF value2 = -1 THEN neg32(value1)
                        ELSE div32(value1, value2)
      [] op = i_irem -> IF value2 = 0 THEN value1
                        ELSE IF value2 = -1 THEN 0
                        ELSE rem32(value1, value2)
      [] op = i_iand -> and32(value1, value2)
      [] op = i_ior -> or32(value1, value2)
      [] op = i_ixor -> xor32(value1, value2)
      [] OTHER -> 0

\* case i_iadd .. i_ixor.  An expression without a defined value either
\* traps or yields the value above
BinaryOp ==
    /\ InLoop /\ instruction \in BinaryOps
    /\ IF CanPop(Top, 2)
       THEN LET value2 == Peek(Top, 0)
                value1 == Peek(Top, 1)
                done == Advance(push(pop(Top, 2),
                                     perform_binary_operation(value1, value2, instruction)),
                                1)
            IN \/ Continue(done, TRUE)
               \/ /\ BinaryUndefined(value1, value2, instruction)
                  /\ Continue(pop(Top, 2), FALSE)
       ELSE Continue(pop(Top, 2), FALSE)
    /\ UNCHANGED <<class_file, loader, class, heap, memory, out, result>>

\* case i_ineg: -value is undefined for INT32_MIN
Ineg ==
    /\ InLoop /\ instruction = i_ineg
    /\ IF CanPop(Top, 1)
       THEN \/ Continue(Advance(push(pop(Top, 1), neg32(Peek(Top, 0))), 1), TRUE)
            \/ /\ Peek(Top, 0) = INT32_MIN
               /\ Continue(pop(Top, 1), FALSE)
       ELSE Continue(pop(Top, 1), FALSE)
    /\ UNCHANGED <<class_file, loader, class, heap, memory, out, result>>

Shifts == {i_ishl, i_ishr, i_iushr}

\* the value of the shift expression for an amount n in 0 .. 31
Shifted(value, n, op) ==
    CASE op = i_ishl -> shl32(value, n)
      [] op = i_ishr -> shr32(value, n)
      [] op = i_iushr -> ushr32(value, n)

\* every bit shifted out
ShiftedOut(value, op) == IF op = i_ishr /\ value < 0 THEN -1 ELSE 0

\* the values the shift expression may have.  The amount is used as it
\* was popped: outside 0 .. 31 the expression is undefined, and a build
\* yields what its shift instruction does with such an amount, the shift
\* by the low 5 bits or every bit shifted out
ShiftValues(value, shift_amount, op) ==
    IF shift_amount \in 0 .. 31
    THEN {Shifted(value, shift_amount, op)}
    ELSE {Shifted(value, shift_amount % 32, op), ShiftedOut(value, op)}

\* the C expression has no defined value: an amount outside 0 .. 31, or a
\* left shift of a negative value or into the sign bit
ShiftUndefined(value, shift_amount, op) ==
    IF shift_amount \notin 0 .. 31 THEN TRUE
    ELSE op = i_ishl /\ (value < 0 \/ (shift_amount > 0 /\ value >= Pow2(31 - shift_amount)))

\* case i_ishl, i_ishr, i_iushr.  An expression without a defined value
\* either traps or yields one of the values above
Shift ==
    /\ InLoop /\ instruction \in Shifts
    /\ IF CanPop(Top, 2)
       THEN \/ \E shifted \in ShiftValues(Peek(Top, 1), Peek(Top, 0), instruction) :
                   Continue(Advance(push(pop(Top, 2), shifted), 1), TRUE)
            \/ /\ ShiftUndefined(Peek(Top, 1), Peek(Top, 0), instruction)
               /\ Continue(pop(Top, 2), FALSE)
       ELSE Continue(pop(Top, 2), FALSE)
    /\ UNCHANGED <<class_file, loader, class, heap, memory, out, result>>

\* case i_iinc
Iinc ==
    /\ InLoop /\ instruction = i_iinc /\ HasOperands(2)
    /\ LET index == bytecode(Top, Top.pc + 1)
           constant == Int8(bytecode(Top, Top.pc + 2))
       IN IF ValidLocal(Top, index)
          THEN \E value \in LocalValues(Top, index) :
                   \/ Continue(Advance(WithLocal(Top, index, add32(value, constant)), 3),
                               TRUE)
                   \/ /\ AddOverflows(value, constant)
                      /\ Continue(Advance(Top, 2), FALSE)
          ELSE Continue(Advance(Top, 2), FALSE)
    /\ UNCHANGED <<class_file, loader, class, heap, memory, out, result>>

IfZero == {i_ifeq, i_ifne, i_iflt, i_ifge, i_ifgt, i_ifle}

IfIcmp == {i_if_icmpeq, i_if_icmpne, i_if_icmplt, i_if_icmpge, i_if_icmpgt, i_if_icmple}

\* how many values should_jump_based_on_instruction pops
Popped(op) == IF op \in IfZero THEN 1 ELSE 2

\* a faulty variant: the operands of if_icmp<op> are compared the other way round
should_jump_swapped(op, f) ==
    LET value2 == Peek(f, 0)
        value1 == Peek(f, 1)
    IN CASE op = i_ifeq -> Peek(f, 0) = 0
         [] op = i_ifne -> Peek(f, 0) # 0
         [] op = i_iflt -> Peek(f, 0) < 0
         [] op = i_ifge -> Peek(f, 0) >= 0
         [] op = i_ifgt -> Peek(f, 0) > 0
         [] op = i_ifle -> Peek(f, 0) <= 0
         [] op = i_if_icmpeq -> value2 = value1
         [] op = i_if_icmpne -> value2 # value1
         [] op = i_if_icmplt -> value2 < value1
         [] op = i_if_icmpge -> value2 >= value1
         [] op = i_if_icmpgt -> value2 > value1
         [] op = i_if_icmple -> value2 <= value1
         [] OTHER -> FALSE

\* should_jump_based_on_instruction's result on the stack of frame f
should_jump_based_on_instruction(op, f) ==
    LET value2 == Peek(f, 0)
        value1 == Peek(f, 1)
    IN CASE op = i_ifeq -> Peek(f, 0) = 0
         [] op = i_ifne -> Peek(f, 0) # 0
         [] op = i_iflt -> Peek(f, 0) < 0
         [] op = i_ifge -> Peek(f, 0) >= 0
         [] op = i_ifgt -> Peek(f, 0) > 0
         [] op = i_ifle -> Peek(f, 0) <= 0
         [] op = i_if_icmpeq -> value1 = value2
         [] op = i_if_icmpne -> value1 # value2
         [] op = i_if_icmplt -> value1 < value2
         [] op = i_if_icmpge -> value1 >= value2
         [] op = i_if_icmpgt -> value1 > value2
         [] op = i_if_icmple -> value1 <= value2
         [] OTHER -> FALSE

\* a faulty variant: the offset is counted from the end of the instruction
Branch_fromNext(f, offset) == Advance(f, offset + 3)

\* pc + offset on the u4 pc
Branch(f, offset) == Advance(f, offset)

\* case i_ifeq .. i_if_icmple
If ==
    /\ InLoop /\ instruction \in IfZero \cup IfIcmp /\ HasOperands(2)
    /\ LET offset == Int16(Operand16(Top))
           n == Popped(instruction)
       IN IF CanPop(Top, n)
          THEN Continue(IF should_jump_based_on_instruction(instruction, Top)
                        THEN Branch(pop(Top, n), offset)
                        ELSE Advance(pop(Top, n), 3),
                        TRUE)
          ELSE Continue(pop(Top, n), FALSE)
    /\ UNCHANGED <<class_file, loader, class, heap, memory, out, result>>

\* case i_goto
Goto ==
    /\ InLoop /\ instruction = i_goto /\ HasOperands(2)
    /\ Continue(Branch(Top, Int16(Operand16(Top))), TRUE)
    /\ UNCHANGED <<class_file, loader, class, heap, memory, out, result>>

\* the opcodes execute's switch has a case for
Supported ==
    (i_iconst_m1 .. i_iconst_5) \cup (i_iload_0 .. i_iload_3)
    \cup (i_istore_0 .. i_istore_3) \cup (i_aload_0 .. i_aload_3)
    \cup (i_astore_0 .. i_astore_3) \cup BinaryOps \cup Shifts \cup IfZero \cup IfIcmp
    \cup {i_nop, i_bipush, i_sipush, i_ldc, i_iload, i_istore, i_aload, i_astore,
          i_iinc, i_ineg, i_goto, i_ireturn, i_areturn, i_return, i_getstatic,
          i_invokevirtual, i_invokestatic, i_dup, i_newarray, i_arraylength,
          i_iastore, i_iaload}

\* a faulty variant: the loop steps over a byte that no case matches
NoCase_skipped(f) == Advance(f, 1)

\* the frame after an iteration of the loop in which no case matches
NoCase(f) == f

\* no case of the switch matches, and the switch has no default: the loop
\* tests pc < code_length again with nothing changed
Unknown ==
    /\ InLoop /\ instruction \notin Supported
    /\ Continue(NoCase(Top), TRUE)
    /\ UNCHANGED <<class_file, loader, class, heap, memory, out, result>>

\* a faulty variant: whatever main returned is accepted
ResultAccepted_any(r) == r.has_value \in BOOLEAN

\* main's assertion on the result of execute
ResultAccepted(r) == ~r.has_value

\* the arrays after heap_free: every allocation of the table is freed
\* a faulty variant: the loop starts at reference 1
heap_free_fromOne(h, mem) ==
    [a \in DOMAIN mem |->
        IF \E r \in DOMAIN h.ptr \ {1} : h.ptr[r] = a THEN <<>> ELSE mem[a]]

heap_free(h, mem) ==
    [a \in DOMAIN mem |-> IF \E r \in DOMAIN h.ptr : h.ptr[r] = a THEN <<>> ELSE mem[a]]

\* main after execute has returned: the assertion, then free_class,
\* heap_free and the end of main
AfterExecute ==
    /\ status = "returned"
    /\ IF ResultAccepted(result)
       THEN /\ status' = "exited"
            /\ memory' = heap_free(heap, memory)
            /\ heap' = [ptr |-> <<>>, count |-> 0]
       ELSE /\ status' = "fatal"
            /\ UNCHANGED <<heap, memory>>
    /\ UNCHANGED <<class_file, loader, class, frames, out, result>>

\* an operand byte is fetched from beyond the code buffer
OperandPastEnd ==
    /\ InLoop
    /\ \/ instruction \in {i_bipush, i_iload, i_istore, i_aload, i_astore, i_ldc}
          /\ ~HasOperands(1)
       \/ instruction \in {i_invokestatic, i_sipush, i_iinc, i_goto} \cup IfZero \cup IfIcmp
          /\ ~HasOperands(2)
    /\ Continue(Top, FALSE)
    /\ UNCHANGED <<class_file, loader, class, heap, memory, out, result>>

Next ==
    \/ Bipush
    \/ Getstatic
    \/ Invokevirtual
    \/ Iconst
    \/ Iload
    \/ Istore
    \/ Iload_n
    \/ Istore_n
    \/ Ireturn
    \/ Invokestatic
    \/ Nop
    \/ Dup
    \/ Newarray
    \/ Arraylength
    \/ Areturn
    \/ Iastore
    \/ Iaload
    \/ Aload
    \/ Astore
    \/ Aload_n
    \/ Astore_n
    \/ ReturnVoid
    \/ FallOffEnd
    \/ Sipush
    \/ Ldc
    \/ BinaryOp
    \/ Ineg
    \/ Shift
    \/ Iinc
    \/ If
    \/ Goto
    \/ Unknown
    \/ AfterExecute
    \/ OperandPastEnd

Spec == Init /\ [][Next]_vars

----------------------------------------------------------------------------
(* Properties *)

\* the step runs the handler of an opcode in ops to its end, inside its objects
Completes(ops) == InLoop /\ instruction \in ops /\ status' = "running"

\* the step is the recursive call of execute made by i_invokestatic
Calls == Completes({i_invokestatic}) /\ Len(frames') = Len(frames) + 1

\* the step is a return of execute into the invokestatic handler of its caller
ReturnsToCaller ==
    status = "running" /\ status' = "running" /\ Len(frames) >= 2
    /\ Len(frames') = Len(frames) - 1

\* the frame of the caller before and after such a step
Caller == frames[Len(frames) - 1]

\* the frames below the innermost one are not touched by the step
SuspendedUnchanged(n) == \A k \in 1 .. n : frames'[k] = frames[k]

\* C1: at every instruction boundary every frame has -1 <= stack_pointer <
\* max_stack, so no push writes at or beyond slot max_stack and no pop reads
\* below slot 0.
C1_StackPointerInBounds ==
    \A k \in 1 .. Len(frames) :
        /\ -1 <= frames[k].stack_pointer
        /\ frames[k].stack_pointer < max_stack(frames[k])

\* C2: in every activation, a local slot that is neither a parameter nor
\* stored to holds 0, so a load of it pushes 0.
C2_UnassignedLocalsAreZero ==
    \A k \in 1 .. Len(frames) :
        \A i \in DOMAIN frames[k].locals :
            frames[k].fresh[i] => LocalValues(frames[k], i) = {0}

\* C3: invokestatic pops exactly num_params values and places them in the
\* callee's locals 0 .. num_params-1 in the order they were pushed: the
\* deepest in locals[0], the top of the stack in locals[num_params-1]; a
\* callee whose body is iload_k; ireturn then returns argument k+1.
C3_ParametersInOrder ==
    [][/\ Calls =>
            LET num_params == get_number_of_parameters(MethodOfFrame(Top'))
                base == Top.stack_pointer - num_params
            IN /\ Caller'.stack_pointer = base
               /\ Caller'.operand_stack = Top.operand_stack
               /\ \A i \in 0 .. (num_params - 1) :
                      /\ Top'.locals[i] = Top.operand_stack[base + 1 + i]
                      /\ ~Top'.fresh[i]
               /\ \A i \in DOMAIN Top'.locals : i >= num_params => Top'.fresh[i]
       /\ \A k \in 0 .. 3 :
            (/\ ReturnsToCaller
             /\ MethodOfFrame(Top).code.code = <<i_iload_0 + k, i_ireturn>>)
            => Peek(Top', 0) = Caller.operand_stack[Caller.stack_pointer + 1 + k]
      ]_vars

\* sel(1, 2, 3) has just been entered: its locals are 1, 2, 3
C3_Witness ==
    /\ Len(frames) = 2
    /\ MethodOfFrame(Top).name = Chars_sel
    /\ Top.pc = 0
    /\ Top.locals = [i \in 0 .. 2 |-> i + 1]
    /\ frames[1].stack_pointer = -1

\* C4: a callee called by the invokestatic at address p returns to pc = p + 3
\* of its caller, whose operand stack is the one before the call without the
\* num_params arguments, with the callee's top-of-stack value pushed iff the
\* callee ended by ireturn or areturn.
C4_ReturnResumesCaller ==
    [][/\ Calls =>
            /\ Caller'.pc = Top.pc + 1
            /\ Caller'.operand_stack = Top.operand_stack
            /\ Caller'.stack_pointer =
                   Top.stack_pointer - get_number_of_parameters(MethodOfFrame(Top'))
            /\ SuspendedUnchanged(Len(frames) - 1)
       /\ (status = "running" /\ Len(frames') = Len(frames))
            => SuspendedUnchanged(Len(frames) - 1)
       /\ ReturnsToCaller =>
            /\ Top'.pc = Caller.pc + 2
            /\ bytecode(Top', Top'.pc - 3) = i_invokestatic
            /\ Top'.locals = Caller.locals
            /\ SuspendedUnchanged(Len(frames) - 2)
            /\ IF InLoop /\ instruction \in {i_ireturn, i_areturn}
               THEN /\ Top'.stack_pointer = Caller.stack_pointer + 1
                    /\ Top'.operand_stack =
                           [Caller.operand_stack EXCEPT
                               ![Caller.stack_pointer + 1] = Peek(Top, 0)]
               ELSE /\ Top'.stack_pointer = Caller.stack_pointer
                    /\ Top'.operand_stack = Caller.operand_stack
      ]_vars

\* main pushed 5, called get(3) at address 2 and is back at pc 5 with the
\* result above the 5
C4_Witness ==
    /\ Len(frames) = 1
    /\ status = "running"
    /\ Top.pc = 5
    /\ bytecode(Top, 2) = i_invokestatic
    /\ MethodOfFrame(Top).code.code[5] = 19
    /\ Top.stack_pointer = 1
    /\ Top.operand_stack[0] = 5

\* C5: the printed lines are the values popped by the invokevirtual
\* instructions in the order in which they execute, in whichever frame: each
\* invokevirtual pops one value, appends one line holding it and advances pc
\* by 3, and no other step touches the output.
C5_OutputInProgramOrder ==
    [][IF Completes({i_invokevirtual})
       THEN /\ out' = out \o <<Peek(Top, 0)>>
            /\ Len(frames') = Len(frames)
            /\ Top'.stack_pointer = Top.stack_pointer - 1
            /\ Top'.pc = Top.pc + 3
       ELSE out' = out
      ]_vars

\* main printed 0, then pr printed its argument 4, then main printed 0 again
C5_Witness ==
    /\ Len(frames) = 1
    /\ Len(out) = 3
    /\ out[1] = 0 /\ out[2] = 4 /\ out[3] = 0
    /\ bytecode(Top, 9) = i_iconst_4
    /\ bytecode(Top, 10) = i_invokestatic

\* the step is main's teardown after execute has returned void: free_class
\* and heap_free, which end the life of every array of the run
TearsDown == status = "returned" /\ status' = "exited"

\* C6: the k-th newarray of a run (from 0), in whichever frame, pushes
\* reference k, and the heap's count is the number of newarray instructions
\* executed so far (until main's teardown frees the heap).
C6_ReferencesCountUp ==
    /\ heap.count = 0 /\ Len(memory) = 0
    /\ [][IF Completes({i_newarray})
          THEN /\ Peek(Top', 0) = Len(memory)
               /\ Len(memory') = Len(memory) + 1
               /\ heap'.count = Len(memory')
          ELSE \/ TearsDown
               \/ /\ Len(memory') = Len(memory)
                  /\ heap'.count = heap.count
         ]_vars

\* main created reference 0, then mk created reference 1 and returned it
C6_Witness ==
    /\ Len(frames) = 1
    /\ heap.count = 2
    /\ ~Top.fresh[1] /\ Top.locals[1] = 0
    /\ ~Top.fresh[2] /\ Top.locals[2] = 1
    /\ bytecode(Top, 5) = i_invokestatic

\* C7: a reference handed out keeps denoting the same array for the rest of
\* the run: later heap_add calls and returns of the creating frame neither
\* change nor remove its entry, no two references denote one array, and
\* newarray never pushes a reference handed out before (the run of the
\* program ends before main's teardown frees the arrays).
C7_ReferencesStable ==
    /\ [](\A r1, r2 \in 0 .. (heap.count - 1) :
              /\ ValidRef(heap, r1)
              /\ heap_get(heap, r1) \in DOMAIN memory
              /\ heap_get(heap, r1) = heap_get(heap, r2) => r1 = r2)
    /\ [][TearsDown \/ \A r \in 0 .. (heap.count - 1) :
              /\ r < heap'.count
              /\ heap_get(heap', r) = heap_get(heap, r)
              /\ DOMAIN memory'[heap_get(heap', r)] = DOMAIN memory[heap_get(heap, r)]
              /\ Completes({i_newarray}) => Peek(Top', 0) # r
         ]_vars

\* mk created reference 0 and returned; main then created reference 1
C7_Witness ==
    /\ Len(frames) = 1
    /\ heap.count = 2
    /\ bytecode(Top, 1) = i_invokestatic
    /\ ArrayOf(0)[0] = -1
    /\ ArrayOf(1)[0] = 2

\* C8: newarray pops count and creates an array of count+1 slots, slot 0 =
\* count and the others 0, when count > 0, and of the single slot count when
\* count <= 0; it pushes the new reference, advances pc by 2 and writes to no
\* other array.
C8_NewarrayLayout ==
    [][Completes({i_newarray}) =>
        LET count == Peek(Top, 0)
            array == memory'[heap'.ptr[Peek(Top', 0) + 1]]
        IN /\ DOMAIN array = (IF count > 0 THEN 0 .. count ELSE {0})
           /\ array[0] = count
           /\ \A i \in DOMAIN array : i # 0 => array[i] = 0
           /\ Top'.stack_pointer = Top.stack_pointer
           /\ Top'.pc = Top.pc + 2
           /\ \A a \in DOMAIN memory : memory'[a] = memory[a]
           /\ Peek(Top', 0) = heap.count
      ]_vars

\* arrays of count 2, 0 and -1 have been created
C8_Witness ==
    /\ Len(memory) = 3
    /\ \E a \in DOMAIN memory : DOMAIN memory[a] = 0 .. 2 /\ memory[a][0] = 2
    /\ \E a \in DOMAIN memory : DOMAIN memory[a] = {0} /\ memory[a][0] = 0
    /\ \E a \in DOMAIN memory : DOMAIN memory[a] = {0} /\ memory[a][0] = -1

\* C9: iastore(ref, i, v) writes slot i+1 of the array of ref and nothing
\* else, iaload(ref, i) pushes slot i+1 of that array, and no step other than
\* an iastore changes an element of an existing array; so iaload returns the
\* value last stored at (ref, i) (main's teardown, after the last
\* instruction, frees the arrays).
C9_StoreThenLoad ==
    [][/\ Completes({i_iastore}) =>
            LET value == Peek(Top, 0)
                index == Peek(Top, 1)
                a == heap.ptr[Peek(Top, 2) + 1]
            IN /\ memory'[a][index + 1] = value
               /\ \A b \in DOMAIN memory :
                      \A j \in DOMAIN memory[b] :
                          (b # a \/ j # index + 1) => memory'[b][j] = memory[b][j]
               /\ DOMAIN memory' = DOMAIN memory
               /\ \A b \in DOMAIN memory : DOMAIN memory'[b] = DOMAIN memory[b]
               /\ Top'.stack_pointer = Top.stack_pointer - 3
       /\ Completes({i_iaload}) =>
            /\ Peek(Top', 0) = memory[heap.ptr[Peek(Top, 1) + 1]][Peek(Top, 0) + 1]
            /\ Top'.stack_pointer = Top.stack_pointer - 1
       /\ ~Completes({i_iastore}) =>
            (TearsDown \/ \A b \in DOMAIN memory : memory'[b] = memory[b])
       /\ heap'.ptr = heap.ptr \/ Completes({i_newarray}) \/ TearsDown
      ]_vars

\* 7 was stored at index 0 of the array of count 2, then read back and printed
C9_Witness ==
    /\ Len(frames) = 1
    /\ Len(memory) = 1
    /\ memory[1] = [i \in 0 .. 2 |-> IF i = 0 THEN 2 ELSE IF i = 1 THEN 7 ELSE 0]
    /\ out = <<7>>

\* C10 as claimed: slot 0 of an array is never modified after its creation,
\* whatever iastore instructions execute (up to main's teardown).
C10_SlotZeroNeverModified ==
    [][TearsDown \/ \A a \in DOMAIN memory : memory'[a][0] = memory[a][0]]_vars

\* C10 as amended: arraylength pushes slot 0 of the referenced array, which
\* newarray sets to the count; every instruction other than iastore, and
\* every iastore whose index is in 0 .. count-1 of its array, leaves slot 0 of
\* every array as it is (an iastore with index -1 overwrites it).
C10_LengthKeptByInRangeStores ==
    [][/\ Completes({i_arraylength}) =>
            /\ Peek(Top', 0) = memory[heap.ptr[Peek(Top, 0) + 1]][0]
            /\ Top'.stack_pointer = Top.stack_pointer
       /\ Completes({i_newarray}) =>
            memory'[heap'.ptr[Peek(Top', 0) + 1]][0] = Peek(Top, 0)
       /\ (status' = "running" /\ ~(Completes({i_iastore}) /\ Peek(Top, 1) < 0)) =>
            \A a \in DOMAIN memory : memory'[a][0] = memory[a][0]
      ]_vars

\* after a store at index 0 of the array of count 2, arraylength gave 2
C10_Witness ==
    /\ Len(frames) = 1
    /\ Len(memory) = 1
    /\ memory[1] = [i \in 0 .. 2 |-> IF i = 0 THEN 2 ELSE IF i = 1 THEN 7 ELSE 0]
    /\ out = <<2>>
    /\ Top.pc >= 4
    /\ bytecode(Top, Top.pc - 4) = i_arraylength

\* the signed 16-bit offset that the two operand bytes of the instruction
\* at pc form, high byte first
OffsetAt(f) ==
    LET w == bytecode(f, f.pc + 1) * 256 + bytecode(f, f.pc + 2)
    IN IF w < 32768 THEN w ELSE w - 65536

\* the step runs a conditional branch to its end and the branch is taken
Taken ==
    /\ Completes(IfZero \cup IfIcmp)
    /\ should_jump_based_on_instruction(instruction, Top)

\* C11: a taken conditional branch and every goto at address p with signed
\* 16-bit offset o continue at p + o, counted from the opcode's own address
\* (a target below address 0 is p + o modulo 2^32, beyond the code); a
\* conditional branch that is not taken continues at p + 3; goto changes
\* neither the operand stack nor the locals.
C11_BranchTarget ==
    [][/\ (Taken \/ Completes({i_goto})) =>
            /\ Top'.pc = Top.pc + OffsetAt(Top)
            /\ Top.pc + OffsetAt(Top) < 0 => ~WithinCode(Top')
       /\ (Completes(IfZero \cup IfIcmp) /\ ~Taken) => Top'.pc = Top.pc + 3
       /\ Completes({i_goto}) =>
            /\ Top'.stack_pointer = Top.stack_pointer
            /\ Top'.operand_stack = Top.operand_stack
            /\ Top'.locals = Top.locals
            /\ Top'.fresh = Top.fresh
            /\ Len(frames') = Len(frames)
      ]_vars

\* the counting loop went round once: the ifne at address 6 with offset -4
\* was taken and local 1 has come down from 3 to 2
C11_Witness ==
    /\ status = "running"
    /\ Len(frames) = 1
    /\ MethodOfFrame(Top).code.code =
           <<i_iconst_3, i_istore_1, i_iinc, 1, 255, i_iload_1, i_ifne, 255, 252, i_return>>
    /\ Top.pc = 2
    /\ Top.locals[1] = 2
    /\ Top.stack_pointer = -1

\* the target of the branch at the pc of frame f when cond holds
NextPc(f, cond) == IF cond THEN f.pc + OffsetAt(f) ELSE f.pc + 3

\* C12: ifeq, ifne, iflt, ifge, ifgt, ifle pop one value and branch iff it is
\* = 0, # 0, < 0, >= 0, > 0, <= 0; if_icmp<op> pops two values and branches
\* iff (second from top) <op> (top); the values are popped whether or not
\* the branch is taken, and no stack slot is written.
C12_BranchConditions ==
    [][/\ Completes(IfZero) =>
            LET value == Peek(Top, 0)
            IN /\ Top'.stack_pointer = Top.stack_pointer - 1
               /\ Top'.operand_stack = Top.operand_stack
               /\ instruction = i_ifeq => Top'.pc = NextPc(Top, value = 0)
               /\ instruction = i_ifne => Top'.pc = NextPc(Top, value # 0)
               /\ instruction = i_iflt => Top'.pc = NextPc(Top, value < 0)
               /\ instruction = i_ifge => Top'.pc = NextPc(Top, value >= 0)
               /\ instruction = i_ifgt => Top'.pc = NextPc(Top, value > 0)
               /\ instruction = i_ifle => Top'.pc = NextPc(Top, value <= 0)
       /\ Completes(IfIcmp) =>
            LET top == Peek(Top, 0)
                second == Peek(Top, 1)
            IN /\ Top'.stack_pointer = Top.stack_pointer - 2
               /\ Top'.operand_stack = Top.operand_stack
               /\ instruction = i_if_icmpeq => Top'.pc = NextPc(Top, second = top)
               /\ instruction = i_if_icmpne => Top'.pc = NextPc(Top, second # top)
               /\ instruction = i_if_icmplt => Top'.pc = NextPc(Top, second < top)
               /\ instruction = i_if_icmpge => Top'.pc = NextPc(Top, second >= top)
               /\ instruction = i_if_icmpgt => Top'.pc = NextPc(Top, second > top)
               /\ instruction = i_if_icmple => Top'.pc = NextPc(Top, second <= top)
      ]_vars

\* iconst_m1; iconst_1; if_icmplt +5 at address 2 was taken (-1 < 1): pc is 7
\* and both values are gone
C12_Witness ==
    /\ status = "running"
    /\ Len(frames) = 1
    /\ code_length(Top) >= 5
    /\ SubSeq(MethodOfFrame(Top).code.code, 1, 5) =
           <<i_iconst_m1, i_iconst_1, i_if_icmplt, 0, 5>>
    /\ Top.pc = 7
    /\ Top.stack_pointer = -1
    /\ Top.operand_stack[0] = -1
    /\ Top.operand_stack[1] = 1

\* C13: ishl and ishr push the second-from-top value shifted by the low 5
\* bits of the top-of-stack amount, for every amount, those >= 32 and the
\* negative ones included: a shift by 33 is a shift by 1, a shift by 32
\* leaves the value as it is.
C13_ShiftsUseLowFiveBits ==
    [][Completes({i_ishl, i_ishr}) =>
           /\ Top'.stack_pointer = Top.stack_pointer - 1
           /\ Peek(Top', 0) = Shifted(Peek(Top, 1), Peek(Top, 0) % 32, instruction)
      ]_vars

\* the step pushes value, and nothing but value, and moves pc on by length
PushesOnly(value, length) ==
    /\ Top'.stack_pointer = Top.stack_pointer + 1
    /\ Top'.operand_stack = [Top.operand_stack EXCEPT ![Top.stack_pointer + 1] = value]
    /\ Top'.pc = Top.pc + length
    /\ Top'.locals = Top.locals
    /\ Len(frames') = Len(frames)

\* C14: bipush pushes its operand byte as a signed 8-bit value, sipush its
\* two operand bytes, high byte first, as a signed 16-bit value, iconst_<n>
\* pushes n (-1 .. 5), ldc of an Integer entry pushes the entry's value; each
\* pushes exactly one value and moves pc on by 2, 3, 1, 2.
C14_LiteralPushes ==
    [][/\ Completes({i_bipush}) =>
            LET b == bytecode(Top, Top.pc + 1)
            IN PushesOnly(IF b < 128 THEN b ELSE b - 256, 2)
       /\ Completes({i_sipush}) =>
            LET w == bytecode(Top, Top.pc + 1) * 256 + bytecode(Top, Top.pc + 2)
            IN PushesOnly(IF w < 32768 THEN w ELSE w - 65536, 3)
       /\ \A n \in -1 .. 5 :
            Completes({i_iconst_0 + n}) => PushesOnly(n, 1)
       /\ (/\ Completes({i_ldc})
           /\ bytecode(Top, Top.pc + 1) \in DOMAIN class.constant_pool
           /\ class.constant_pool[bytecode(Top, Top.pc + 1)].tag = CONSTANT_Integer)
            => PushesOnly(class.constant_pool[bytecode(Top, Top.pc + 1)].info.bytes, 2)
      ]_vars

\* sipush 0x8000 pushed -32768 and then ldc pushed the Integer entry -2^31
C14_Witness ==
    /\ status = "running"
    /\ Len(frames) = 1
    /\ code_length(Top) >= 5
    /\ SubSeq(MethodOfFrame(Top).code.code, 1, 5) = <<i_sipush, 128, 0, i_ldc, 21>>
    /\ Top.pc = 5
    /\ Top.stack_pointer = 1
    /\ Top.operand_stack[0] = -32768
    /\ Top.operand_stack[1] = INT32_MIN

\* C15: iadd, isub, imul, idiv, irem pop value2 (the top) and then value1 and
\* push value1 <op> value2: the sum, difference and product modulo 2^32 as a
\* signed 32-bit value, and for a divisor other than 0 the quotient
\* truncated toward zero and the remainder with the sign of the dividend;
\* the stack is one value shorter afterwards.
C15_BinaryArithmetic ==
    [][(/\ InLoop
        /\ instruction \in {i_iadd, i_isub, i_imul, i_idiv, i_irem}
        /\ CanPop(Top, 2)
        /\ instruction \in {i_idiv, i_irem} => Peek(Top, 0) # 0)
       => LET value2 == Peek(Top, 0)
              value1 == Peek(Top, 1)
              quotient == IF value2 = -1 THEN neg32(value1) ELSE div32(value1, value2)
          IN /\ status' = "running"
             /\ Top'.stack_pointer = Top.stack_pointer - 1
             /\ Top'.pc = Top.pc + 1
             /\ instruction = i_iadd => Peek(Top', 0) = add32(value1, value2)
             /\ instruction = i_isub => Peek(Top', 0) = sub32(value1, value2)
             /\ instruction = i_imul => Peek(Top', 0) = mul32(value1, value2)
             /\ instruction = i_idiv => Peek(Top', 0) = quotient
             /\ instruction = i_irem =>
                    Peek(Top', 0) = sub32(value1, mul32(value2, quotient))
      ]_vars

\* C16: every constant-pool index the interpreter follows at run time, the
\* operand byte of ldc, the two operand bytes of invokestatic and the indices
\* held by the Methodref and NameAndType entries on the way to the method, is
\* checked against 1 .. pool_size: an index outside that range is fatal.
C16_PoolIndicesChecked ==
    [][/\ (/\ InLoop /\ instruction = i_ldc /\ HasOperands(1)
           /\ ~ValidConstantIndex(class.constant_pool, bytecode(Top, Top.pc + 1)))
            => status' = "fatal"
       /\ (/\ InLoop /\ instruction = i_invokestatic /\ HasOperands(2)
           /\ LET pool == class.constant_pool
                  index == Operand16(Top)
              IN \/ ~ValidConstantIndex(pool, index)
                 \/ /\ pool[index].tag = CONSTANT_Methodref
                    /\ LET nt == pool[index].info.name_and_type_index
                       IN \/ ~ValidConstantIndex(pool, nt)
                          \/ /\ pool[nt].tag = CONSTANT_NameAndType
                             /\ \/ ~ValidConstantIndex(pool, pool[nt].info.name_index)
                                \/ ~ValidConstantIndex(pool,
                                                       pool[nt].info.descriptor_index))
            => status' = "fatal"
      ]_vars

\* the innermost activation is in its loop at a byte no case matches
AtUnknownOpcode == InLoop /\ instruction \notin Supported

\* C17: when the byte at pc is not a supported opcode, executing it changes
\* nothing: pc, operand stack, locals, heap and output stay as they are, so
\* the frame is at that same byte ever after, execute does not return and
\* nothing more is printed.
C17_UnknownOpcodeSpins ==
    [][AtUnknownOpcode => (AtUnknownOpcode' /\ UNCHANGED vars)]_vars

\* main printed 5 and is now at the byte 1, which is no opcode of the switch
C17_Witness ==
    /\ AtUnknownOpcode
    /\ Len(frames) = 1
    /\ instruction = 1
    /\ Top.pc = 4
    /\ out = <<5>>

\* the class has a method named main with descriptor ([Ljava/lang/String;)V
HasEntryMethod ==
    \E i \in DOMAIN class.methods :
        /\ class.methods[i].name = <<"m", "a", "i", "n">>
        /\ class.methods[i].descriptor =
               <<"(", "[", "L", "j", "a", "v", "a", "/", "l", "a", "n", "g", "/",
                 "S", "t", "r", "i", "n", "g", ";", ")", "V">>

\* the step ends main's activation
MainEnds == status = "running" /\ Len(frames) = 1 /\ status' = "returned"

\* C18: without a method main with descriptor ([Ljava/lang/String;)V the run
\* is fatal before any instruction is executed; when main's activation ends
\* through ireturn or areturn the run is fatal after execution; the run
\* reaches teardown and exits only after main returned void.
C18_DriverContract ==
    /\ [](~HasEntryMethod =>
              /\ status = "fatal"
              /\ frames = <<>> /\ out = <<>> /\ memory = <<>> /\ heap = heap_init)
    /\ [][/\ MainEnds =>
               (result'.has_value <=> (InLoop /\ instruction \in {i_ireturn, i_areturn}))
          /\ status = "returned" =>
               status' = IF result.has_value THEN "fatal" ELSE "exited"
          /\ (status' = "exited" /\ status # "exited") =>
               (status = "returned" /\ ~result.has_value /\ HasEntryMethod)
          /\ status \in {"fatal", "exited"} => UNCHANGED vars
         ]_vars

\* main ended through ireturn with 5 on its stack and the run is fatal,
\* with nothing freed
C18_Witness ==
    /\ status = "fatal"
    /\ HasEntryMethod
    /\ result = [has_value |-> TRUE, value |-> 5]
    /\ frames = <<>>

----------------------------------------------------------------------------
(* read_class.c: get_constant_pool, run on the bytes of a file from the     *)
(* constant_pool_count on.  loader.constant_pool is the allocated array:    *)
(* the info of a slot is <<value>> for a pointer to value and <<>> for NULL *)

\* entries follow the count in a file of the model: at most MaxEntries
MaxEntries == 3

\* the bytes of constant-pool entries: two Utf8 entries, an Integer, a
\* Class, a Methodref, a Fieldref, a NameAndType, an entry with a tag the
\* loader does not know, and a Utf8 entry that announces 5 bytes
EntryBytes ==
    { <<CONSTANT_Utf8, 0, 1, 97>>, <<CONSTANT_Utf8, 0, 0>>,
      <<CONSTANT_Integer, 255, 255, 255, 254>>, <<CONSTANT_Class, 0, 1>>,
      <<CONSTANT_Methodref, 0, 1, 0, 2>>, <<CONSTANT_Fieldref, 0, 1, 0, 2>>,
      <<CONSTANT_NameAndType, 0, 1, 0, 2>>, <<5, 0, 0, 0, 0>>,
      <<CONSTANT_Utf8, 0, 5, 97>> }

RECURSIVE EntrySequences(_)
EntrySequences(n) ==
    IF n = 0 THEN {<<>>}
    ELSE EntrySequences(n - 1)
         \cup {s \o e : s \in EntrySequences(n - 1), e \in EntryBytes}

\* the two bytes of constant_pool_count: 0, 1, 2, 3, 4, 256
CountBytes == { <<0, 0>>, <<0, 1>>, <<0, 2>>, <<0, 3>>, <<0, 4>>, <<1, 0>> }

PoolFiles ==
    {c \o s : c \in CountBytes, s \in EntrySequences(MaxEntries)} \cup {<<>>, <<0>>}

\* what one iteration of the loop makes of the bytes at the position
Parsed(constant, f) == [fatal |-> FALSE, constant |-> constant, file |-> f]

Failed(f) == [fatal |-> TRUE, file |-> f]

read_constant(f) ==
    IF AtEOF(f, 1) THEN Failed(f)
    ELSE LET tag == read_u1(f)
             g == Skip(f, 1)
         IN IF tag = CONSTANT_Utf8
            THEN IF AtEOF(g, 2) THEN Failed(g)
                 ELSE LET length == read_u2(g)
                          h == Skip(g, 2)
                      IN IF AtEOF(h, length) THEN Failed(h)
                         ELSE Parsed([tag |-> tag, info |-> <<fread(h, length)>>],
                                     Skip(h, length))
            ELSE IF tag = CONSTANT_Integer
            THEN IF AtEOF(g, 4) THEN Failed(g)
                 ELSE Parsed([tag |-> tag,
                              info |-> <<[bytes |-> Int32(read_u2(g),
                                                          Byte(g, 2) * 256 + Byte(g, 3))]>>],
                             Skip(g, 4))
            ELSE IF tag = CONSTANT_Class
            THEN IF AtEOF(g, 2) THEN Failed(g)
                 ELSE Parsed([tag |-> tag, info |-> <<[string_index |-> read_u2(g)]>>],
                             Skip(g, 2))
            ELSE IF tag \in {CONSTANT_Methodref, CONSTANT_Fieldref}
            THEN IF AtEOF(g, 4) THEN Failed(g)
                 ELSE Parsed([tag |-> tag,
                              info |-> <<[class_index |-> read_u2(g),
                                          name_and_type_index |-> read_u2(Skip(g, 2))]>>],
                             Skip(g, 4))
            ELSE IF tag = CONSTANT_NameAndType
            THEN IF AtEOF(g, 4) THEN Failed(g)
                 ELSE Parsed([tag |-> tag,
                              info |-> <<[name_index |-> read_u2(g),
                                          descriptor_index |-> read_u2(Skip(g, 2))]>>],
                             Skip(g, 4))
            ELSE Failed(g)

\* constant_pool_size on the allocated array: the slots before the first
\* one whose info is NULL
RECURSIVE SlotsBeforeNull(_, _)
SlotsBeforeNull(array, i) ==
    IF array[i].info = <<>> THEN i - 1 ELSE SlotsBeforeNull(array, i + 1)

\* get_constant's assertion on the allocated array
AcceptedIndex(array, index) == 0 < index /\ index <= SlotsBeforeNull(array, 1)

\* the interpreter's variables while the loader runs
NotStarted ==
    /\ class = [constant_pool |-> <<>>, methods |-> <<>>]
    /\ frames = <<>>
    /\ heap = heap_init
    /\ memory = <<>>
    /\ out = <<>>
    /\ result = [has_value |-> FALSE, value |-> 0]

InitPool ==
    /\ class_file \in [bytes : PoolFiles, pos : {0}]
    /\ loader = [fn |-> "get_constant_pool", at |-> "count",
                 constant_pool_count |-> 0, constant_pool |-> <<>>]
    /\ status = "loading"
    /\ NotStarted

\* u2 constant_pool_count = read_u2(class_file) - 1
EntriesToRead(count) == (count - 1) % 65536

\* the head of get_constant_pool
ReadPoolCount ==
    /\ status = "loading" /\ loader.fn = "get_constant_pool" /\ loader.at = "count"
    /\ IF AtEOF(class_file, 2)
       THEN /\ status' = "fatal"
            /\ UNCHANGED <<class_file, loader>>
       ELSE /\ status' = "loading"
            /\ class_file' = Skip(class_file, 2)
            /\ loader' = [loader EXCEPT
                              !.at = "entries",
                              !.constant_pool_count = EntriesToRead(read_u2(class_file))]
    /\ UNCHANGED <<class, frames, heap, memory, out, result>>

\* one iteration of while (constant_pool_count > 0)
ReadConstant ==
    /\ status = "loading" /\ loader.fn = "get_constant_pool" /\ loader.at = "entries"
    /\ loader.constant_pool_count > 0
    /\ LET read == read_constant(class_file)
       IN /\ class_file' = read.file
          /\ IF read.fatal
             THEN /\ status' = "fatal"
                  /\ UNCHANGED loader
             ELSE /\ status' = "loading"
                  /\ loader' = [loader EXCEPT
                                    !.constant_pool = Append(@, read.constant),
                                    !.constant_pool_count = @ - 1]
    /\ UNCHANGED <<class, frames, heap, memory, out, result>>

\* the end of get_constant_pool: the slot after the last entry gets info
\* NULL; its tag is never written
EndPool ==
    /\ status = "loading" /\ loader.fn = "get_constant_pool" /\ loader.at = "entries"
    /\ loader.constant_pool_count = 0
    /\ \E tag \in {0, CONSTANT_Integer} :
           loader' = [loader EXCEPT
                          !.at = "returned",
                          !.constant_pool = Append(@, [tag |-> tag, info |-> <<>>])]
    /\ status' = "loaded"
    /\ UNCHANGED <<class_file, class, frames, heap, memory, out, result>>

NextPool == ReadPoolCount \/ ReadConstant \/ EndPool

SpecPool == InitPool /\ [][NextPool]_vars

\* the constant_pool_count the file starts with
OnDiskCount == class_file.bytes[1] * 256 + class_file.bytes[2]

\* the number of entries that belong to an on-disk count c
EntriesOf(c) == IF c <= 1 THEN 0 ELSE c - 1

\* C20: for every on-disk constant_pool_count c the loader reads exactly
\* c - 1 entries (none when c is 0 or 1) and stores them in file order at
\* indices 1 .. c-1; the size lookups see is the number of entries read, so
\* get_constant accepts index i iff 1 <= i <= c - 1.
C20_PoolHasCountMinusOneEntries ==
    /\ [](loader.at \in {"entries", "returned"} =>
              /\ Len(SelectSeq(loader.constant_pool, LAMBDA e : e.info # <<>>))
                     <= EntriesOf(OnDiskCount)
              /\ loader.at = "returned" =>
                     /\ SlotsBeforeNull(loader.constant_pool, 1) = EntriesOf(OnDiskCount)
                     /\ \A i \in 0 .. 5 :
                            AcceptedIndex(loader.constant_pool, i)
                                <=> (1 <= i /\ i <= OnDiskCount - 1))
    /\ [][(loader.at = "entries" /\ status' = "loading") =>
              /\ Len(loader'.constant_pool) = Len(loader.constant_pool) + 1
              /\ SubSeq(loader'.constant_pool, 1, Len(loader.constant_pool))
                     = loader.constant_pool
              /\ loader'.constant_pool[Len(loader'.constant_pool)].tag
                     = read_u1(class_file)
              /\ class_file'.pos > class_file.pos
         ]_vars

----------------------------------------------------------------------------
(* read_class.c: read_method_attributes, run on the bytes of a file from    *)
(* the first attribute of a method on, with the constant pool already read  *)

\* a method of a file of the model has at most MaxAttributes attributes
MaxAttributes == 3

\* the characters C, o, d, e
Bytes_Code == <<67, 111, 100, 101>>

\* the pool array of these files: the names Code, X and code at 1, 2 and 4,
\* an Integer at 3, then the terminator
AttributePool ==
    << [tag |-> CONSTANT_Utf8, info |-> <<Bytes_Code>>],
       [tag |-> CONSTANT_Utf8, info |-> << <<88>> >>],
       [tag |-> CONSTANT_Integer, info |-> <<[bytes |-> 7]>>],
       [tag |-> CONSTANT_Utf8, info |-> << <<99, 111, 100, 101>> >>],
       [tag |-> 0, info |-> <<>>] >>

\* the bytes of attributes: a Code attribute (max_stack 2, max_locals 3, code
\* iload_0 ireturn), a Code attribute with two more bytes after its code
\* (max_stack 1, max_locals 1, code return), a Code attribute of declared
\* length 8 with two bytes of code (0, 2) and four bytes 0 after them, so
\* that its code is past its declared end, an attribute X of two bytes, an
\* empty attribute X, an attribute named code, an attribute whose name index
\* is 0, an attribute whose name is the Integer entry
AttributeBytes ==
    { <<0, 1, 0, 0, 0, 10, 0, 2, 0, 3, 0, 0, 0, 2, i_iload_0, i_ireturn>>,
      <<0, 1, 0, 0, 0, 11, 0, 1, 0, 1, 0, 0, 0, 1, i_return, 0, 0>>,
      <<0, 1, 0, 0, 0, 8, 0, 1, 0, 1, 0, 0, 0, 2, 0, 2, 0, 0, 0, 0>>,
      <<0, 2, 0, 0, 0, 2, 9, 9>>,
      <<0, 2, 0, 0, 0, 0>>,
      <<0, 4, 0, 0, 0, 1, 7>>,
      <<0, 0, 0, 0, 0, 0>>,
      <<0, 3, 0, 0, 0, 0>> }

RECURSIVE AttributeSequences(_)
AttributeSequences(n) ==
    IF n = 0 THEN {<<>>}
    ELSE AttributeSequences(n - 1)
         \cup {s \o a : s \in AttributeSequences(n - 1), a \in AttributeBytes}

\* the characters of a C string held in bytes: those before the first 0
RECURSIVE CString(_)
CString(bytes) ==
    IF bytes = <<>> \/ Head(bytes) = 0 THEN <<>>
    ELSE <<Head(bytes)>> \o CString(Tail(bytes))

\* strcmp(a, b) == 0
strcmp_equal(a, b) == CString(a) = CString(b)

InitAttributes ==
    /\ class_file \in [bytes : AttributeSequences(MaxAttributes), pos : {0}]
    /\ \E n \in 0 .. MaxAttributes :
           loader = [fn |-> "read_method_attributes",
                     info |-> [attributes_count |-> n],
                     attributes |-> n,
                     found_code |-> FALSE,
                     code |-> <<>>,
                     constant_pool |-> AttributePool,
                     failed |-> ""]
    /\ status = "loading"
    /\ NotStarted

\* an assertion fails with the file and the loader as they are by then
Fatal(f, l, message) ==
    /\ status' = "fatal"
    /\ class_file' = f
    /\ loader' = [l EXCEPT !.failed = message]

\* a faulty variant: found_code stays as it was
FoundCode_kept(found_code) == found_code

\* found_code = true
FoundCode(found_code) == TRUE

\* the body of the if for an attribute named Code, from the position f
\* after the attribute's length, followed by the fseek to attribute_end
ReadCode(f, attribute_end) ==
    IF loader.found_code THEN Fatal(f, loader, "Duplicate method code")
    ELSE LET found == [loader EXCEPT !.found_code = FoundCode(@)]
         IN IF AtEOF(f, 8)
            THEN Fatal(f, found, "Reached end of file prematurely")
            ELSE LET g == Skip(f, 8)
                     length == read_u4(Skip(f, 4))
                 IN IF AtEOF(g, length)
                    THEN Fatal(g, [found EXCEPT
                                       !.code = <<[max_stack |-> read_u2(f),
                                                   max_locals |-> read_u2(Skip(f, 2)),
                                                   code_length |-> length,
                                                   code |-> fread(g, Len(g.bytes) - g.pos)]>>],
                               "Failed to read method code")
                    ELSE /\ status' = "loading"
                         /\ class_file' = fseek(g, attribute_end)
                         /\ loader' = [found EXCEPT
                                           !.attributes = @ - 1,
                                           !.code = <<[max_stack |-> read_u2(f),
                                                       max_locals |-> read_u2(Skip(f, 2)),
                                                       code_length |-> length,
                                                       code |-> fread(g, length)]>>]

\* one iteration of the for loop of read_method_attributes
ReadAttribute ==
    /\ status = "loading" /\ loader.fn = "read_method_attributes"
    /\ loader.attributes > 0
    /\ IF AtEOF(class_file, 6)
       THEN Fatal(class_file, loader, "Reached end of file prematurely")
       ELSE LET attribute_name_index == read_u2(class_file)
                attribute_length == read_u4(Skip(class_file, 2))
                f == Skip(class_file, 6)
                attribute_end == f.pos + attribute_length
            IN IF ~AcceptedIndex(loader.constant_pool, attribute_name_index)
               THEN Fatal(f, loader, "Invalid constant pool index")
               ELSE LET type_constant == loader.constant_pool[attribute_name_index]
                    IN IF type_constant.tag # CONSTANT_Utf8
                       THEN Fatal(f, loader, "Expected a UTF8")
                       ELSE IF strcmp_equal(type_constant.info[1], Bytes_Code)
                       THEN ReadCode(f, attribute_end)
                       ELSE /\ status' = "loading"
                            /\ class_file' = fseek(f, attribute_end)
                            /\ loader' = [loader EXCEPT !.attributes = @ - 1]
    /\ UNCHANGED <<class, frames, heap, memory, out, result>>

\* the loop is over: assert(found_code)
EndAttributes ==
    /\ status = "loading" /\ loader.fn = "read_method_attributes"
    /\ loader.attributes = 0
    /\ IF loader.found_code
       THEN /\ status' = "loaded"
            /\ UNCHANGED <<class_file, loader>>
       ELSE Fatal(class_file, loader, "Missing method code")
    /\ UNCHANGED <<class, frames, heap, memory, out, result>>

NextAttributes == ReadAttribute \/ EndAttributes

SpecAttributes == InitAttributes /\ [][NextAttributes]_vars

\* the big-endian 16-bit and 32-bit values p bytes into the file
U2At(p) == class_file.bytes[p + 1] * 256 + class_file.bytes[p + 2]

U4At(p) == U2At(p) * 65536 + U2At(p + 2)

\* where the k-th attribute (from 0) of the method starts in the file: each
\* attribute is a name index, a length and as many bytes as the length says
RECURSIVE AttributeStart(_)
AttributeStart(k) ==
    IF k = 0 THEN 0
    ELSE LET p == AttributeStart(k - 1)
         IN p + 6 + U4At(p + 2)

\* the k-th attribute is named Code
NamedCode(k) ==
    LET index == U2At(AttributeStart(k))
    IN /\ index \in 1 .. 4
       /\ AttributePool[index].tag = CONSTANT_Utf8
       /\ AttributePool[index].info = <<Bytes_Code>>

\* how many of the first m attributes are named Code
CodesAmong(m) == Cardinality({k \in 0 .. (m - 1) : NamedCode(k)})

\* the code_t that the Code attribute starting at p describes
CodeOf(p) ==
    [max_stack |-> U2At(p + 6),
     max_locals |-> U2At(p + 8),
     code_length |-> U4At(p + 10),
     code |-> SubSeq(class_file.bytes, p + 15, p + 14 + U4At(p + 10))]

\* C19: the loader accepts a method iff exactly one of its attributes is named
\* Code: a second Code attribute is fatal where it is met, the end of the
\* attribute list with no Code attribute is fatal, and an accepted method has
\* the max_stack, max_locals and bytecode of its one Code attribute.  (The
\* other fatal ends are those of a file that ends early or names an
\* attribute by something that is not a Utf8 entry.)
C19_ExactlyOneCode ==
    loader.fn = "read_method_attributes" =>
        LET n == loader.info.attributes_count
            m == n - loader.attributes
        IN /\ status = "loading" =>
                 /\ CodesAmong(m) <= 1
                 /\ loader.found_code <=> CodesAmong(m) = 1
           /\ status = "loaded" =>
                 /\ m = n
                 /\ CodesAmong(n) = 1
                 /\ \A k \in 0 .. (n - 1) :
                        NamedCode(k) => loader.code = <<CodeOf(AttributeStart(k))>>
           /\ status = "fatal" =>
                 /\ loader.failed \in
                        {"Duplicate method code", "Missing method code",
                         "Reached end of file prematurely", "Failed to read method code",
                         "Invalid constant pool index", "Expected a UTF8"}
                 /\ loader.failed = "Duplicate method code" =>
                        /\ CodesAmong(m) = 1
                        /\ NamedCode(m)
                        /\ class_file.pos = AttributeStart(m) + 6
                 /\ loader.failed = "Missing method code" =>
                        /\ m = n
                        /\ CodesAmong(n) = 0

\* a method of three attributes, X, Code, X, is accepted with the code of
\* the one in the middle
C19_Witness ==
    /\ status = "loaded"
    /\ loader.fn = "read_method_attributes"
    /\ loader.info.attributes_count = 3
    /\ class_file.bytes =
           <<0, 2, 0, 0, 0, 2, 9, 9>>
           \o <<0, 1, 0, 0, 0, 11, 0, 1, 0, 1, 0, 0, 0, 1, i_return, 0, 0>>
           \o <<0, 2, 0, 0, 0, 0>>
    /\ loader.code = <<[max_stack |-> 1, max_locals |-> 1, code_length |-> 1,
                        code |-> <<i_return>>]>>
    /\ class_file.pos = Len(class_file.bytes)

----------------------------------------------------------------------------
(* read_class.c: get_number_of_parameters, called on a method whose         *)
(* descriptor is drawn from the descriptors of bounded length               *)

\* the most characters between ( and ) of a descriptor
MaxDescriptorChars == 4

\* the strings of exactly n characters over an array prefix and two type letters
RECURSIVE ParameterChars(_)
ParameterChars(n) ==
    IF n = 0 THEN { <<>> }
    ELSE { s \o <<c>> : s \in ParameterChars(n - 1), c \in {"[", "I", "J"} }

\* ( parameters ) return type
Descriptors ==
    { <<"(">> \o s \o <<")">> \o r :
          s \in UNION { ParameterChars(n) : n \in 0 .. MaxDescriptorChars },
          r \in { <<"V">>, <<"[", "I">> } }

InitParameters ==
    /\ class_file = Closed
    /\ \E d \in Descriptors :
           loader = [fn |-> "get_number_of_parameters",
                     method |-> MethodOf(Chars_sel, d, 1, 1, <<i_return>>),
                     returned |-> <<>>]
    /\ status = "loading"
    /\ NotStarted

\* the call returns its u2
CallGetNumberOfParameters ==
    /\ status = "loading" /\ loader.fn = "get_number_of_parameters"
    /\ loader' = [loader EXCEPT !.returned = <<get_number_of_parameters(loader.method)>>]
    /\ status' = "loaded"
    /\ UNCHANGED <<class_file, class, frames, heap, memory, out, result>>

NextParameters == CallGetNumberOfParameters

SpecParameters == InitParameters /\ [][NextParameters]_vars

\* the characters of the descriptor between ( and )
ParametersOf(descriptor) ==
    SubSeq(descriptor, strchr(descriptor, "(") + 1, strchr(descriptor, ")") - 1)

\* the number of parameter tokens of s, a token being any number of [
\* followed by one type letter; -1 when s ends inside a token
RECURSIVE Tokens(_, _)
Tokens(s, inPrefix) ==
    IF s = <<>> THEN (IF inPrefix THEN -1 ELSE 0)
    ELSE IF Head(s) = "["
         THEN Tokens(Tail(s), TRUE)
         ELSE LET rest == Tokens(Tail(s), FALSE)
              IN IF rest < 0 THEN rest ELSE rest + 1

\* C21: get_number_of_parameters returns the number of parameter tokens
\* between ( and ), a token being any number of [ prefixes followed by one
\* type letter: () gives 0, (II) 2, ([I) 1, ([[I) 1, (I[I) 2.
C21_CountsParameterTokens ==
    (loader.fn = "get_number_of_parameters" /\ status = "loaded") =>
        LET tokens == Tokens(ParametersOf(loader.method.descriptor), FALSE)
        IN tokens >= 0 => loader.returned = <<tokens>>

----------------------------------------------------------------------------
(* Two runs of the interpreter on one class file, one after the other: when *)
(* the first run has ended, loader keeps what it printed and how it ended,  *)
(* and main is entered again on the same class                              *)

\* the record of a run that has ended
Ended(printed, how) == [fn |-> "main", out |-> printed, status |-> how]

\* the process is started again on the same class file
RunAgain ==
    /\ status \in {"exited", "fatal", "undefined"}
    /\ loader = Returned
    /\ loader' = Ended(out, status)
    /\ heap' = heap_init
    /\ memory' = <<>>
    /\ out' = <<>>
    /\ result' = [has_value |-> FALSE, value |-> 0]
    /\ LET main_method == find_method(MAIN_METHOD, MAIN_DESCRIPTOR, class)
       IN IF main_method = NULL
          THEN /\ status' = "fatal"
               /\ frames' = <<>>
          ELSE LET n == class.methods[main_method].code.max_locals
               IN /\ status' = "running"
                  /\ frames' = << Activation(main_method,
                                             [i \in 0 .. (n - 1) |-> 0],
                                             [i \in 0 .. (n - 1) |-> TRUE],
                                             4 * n) >>
    /\ UNCHANGED <<class_file, class>>

NextRuns == Next \/ RunAgain

SpecRuns == Init /\ [][NextRuns]_vars

\* the instructions whose result is left to the build for some operands
\* (overflow, division, shift amounts, ldc's unchecked index): one build
\* gives the same result in every run
BuildDecides == BinaryOps \cup Shifts \cup {i_ineg, i_iinc, i_ldc}

\* no byte of the class's code is such an instruction
NothingLeftToTheBuild ==
    \A i \in DOMAIN class.methods :
        \A k \in DOMAIN class.methods[i].code.code :
            class.methods[i].code.code[k] \notin BuildDecides

\* C22: two runs on one class file print the same sequence of integers
\* (stated for two runs that both end normally, on a class none of whose
\* instructions is left to the build: the second run has printed what the
\* first printed).
C22_OutputDeterminedByClassFile ==
    (/\ loader.fn = "main" /\ loader.status = "exited" /\ status = "exited"
     /\ NothingLeftToTheBuild) =>
        out = loader.out

----------------------------------------------------------------------------
(* heap.c: the release of the arrays.  A released array is <<>> in memory;  *)
(* an array that newarray created always has its slot 0                     *)

\* the array at address a has been released
Released(mem, a) == mem[a] = <<>>

\* C23: on normal termination every array newarray created is released
\* exactly once, by the teardown that runs after main's activation has
\* returned: the teardown releases exactly the arrays at references
\* 0 .. count-1, each through one reference, and no other step releases an
\* array, so none is released while a frame is active.
C23_ArraysReleasedAtTeardown ==
    /\ [](status = "exited" =>
              \A a \in DOMAIN memory : Released(memory, a))
    /\ [](frames # <<>> =>
              \A a \in DOMAIN memory : ~Released(memory, a))
    /\ [][IF TearsDown
          THEN /\ frames = <<>>
               /\ Len(heap.ptr) = heap.count
               /\ \A a \in DOMAIN memory :
                      /\ ~Released(memory, a)
                      /\ Released(memory', a)
                      /\ Cardinality({r \in 0 .. (heap.count - 1) :
                                          heap_get(heap, r) = a}) = 1
          ELSE \A a \in DOMAIN memory :
                   Released(memory', a) <=> Released(memory, a)
         ]_vars

\* main created an array, mk created another, main returned void and the
\* teardown released both
C23_Witness ==
    /\ status = "exited"
    /\ Len(memory) = 2
    /\ Released(memory, 1) /\ Released(memory, 2)
    /\ \E i \in DOMAIN class.methods[1].code.code :
           class.methods[1].code.code[i] = i_invokestatic

\* the step completes one iteration of the attribute loop
AttributeProcessed ==
    /\ loader.fn = "read_method_attributes"
    /\ status = "loading" /\ status' = "loading"
    /\ loader'.attributes = loader.attributes - 1

\* C24: after the loader has processed an attribute, Code or not, the cursor
\* is at the position just after the attribute's 6-byte header plus its
\* attribute_length, whatever the Code parser consumed; so the i-th header is
\* read at the offset the declared lengths of the attributes before it give,
\* and what follows the method is read right after the last attribute.
C24_CursorAfterAttribute ==
    /\ []((loader.fn = "read_method_attributes" /\ status \in {"loading", "loaded"}) =>
              class_file.pos =
                  AttributeStart(loader.info.attributes_count - loader.attributes))
    /\ [][AttributeProcessed =>
              /\ class_file'.pos = (class_file.pos + 6) + U4At(class_file.pos + 2)
              /\ class_file'.bytes = class_file.bytes
         ]_vars

\* a Code attribute of declared length 8 holds two bytes of code, 10 bytes in
\* all: the cursor went back to byte 14, where the second header was read
C24_Witness ==
    /\ status = "loaded"
    /\ loader.fn = "read_method_attributes"
    /\ loader.info.attributes_count = 2
    /\ class_file.bytes = <<0, 1, 0, 0, 0, 8, 0, 1, 0, 1, 0, 0, 0, 2, 0, 2, 0, 0, 0, 0>>
    /\ loader.code = <<[max_stack |-> 1, max_locals |-> 1, code_length |-> 2,
                        code |-> <<0, 2>>]>>
    /\ class_file.pos = 20

\* C25: iinc i c adds to locals[i] the operand byte c taken as a signed 8-bit
\* value (255 subtracts 1, 128 subtracts 128), with 32-bit wraparound,
\* leaves the operand stack and every other local as they are and advances
\* pc by 3.
C25_IincAddsSignedByte ==
    [][(/\ InLoop /\ instruction = i_iinc /\ HasOperands(2)
        /\ ValidLocal(Top, bytecode(Top, Top.pc + 1)))
       => LET index == bytecode(Top, Top.pc + 1)
              c == bytecode(Top, Top.pc + 2)
              constant == IF c >= 128 THEN c - 256 ELSE c
          IN /\ status' = "running"
             /\ Len(frames') = Len(frames)
             /\ \E value \in LocalValues(Top, index) :
                    Top'.locals = [Top.locals EXCEPT ![index] = add32(value, constant)]
             /\ Top'.operand_stack = Top.operand_stack
             /\ Top'.stack_pointer = Top.stack_pointer
             /\ Top'.pc = Top.pc + 3
             /\ \A d \in 1 .. (Len(frames) - 1) : frames'[d] = frames[d]
      ]_vars

max_locals(f) == MethodOfFrame(f).code.max_locals

\* C27: every local slot an instruction touches lies in 0 .. max_locals-1 of
\* the frame's method: the index operand of iload, istore, aload, astore and
\* iinc, the index of the _<n> forms, and the slots 0 .. num_params-1 that
\* invokestatic fills in the callee (num_params <= the callee's max_locals).
C27_LocalsInBounds ==
    InLoop =>
        /\ (instruction \in {i_iload, i_istore, i_aload, i_astore, i_iinc}
            /\ HasOperands(1)) =>
               bytecode(Top, Top.pc + 1) < max_locals(Top)
        /\ instruction \in i_iload_0 .. i_iload_3 =>
               instruction - OFFSET_ILOAD < max_locals(Top)
        /\ instruction \in i_istore_0 .. i_istore_3 =>
               instruction - OFFSET_ISTORE < max_locals(Top)
        /\ instruction \in i_aload_0 .. i_aload_3 =>
               instruction - OFFSET_ALOAD < max_locals(Top)
        /\ instruction \in i_astore_0 .. i_astore_3 =>
               instruction - OFFSET_ASTORE < max_locals(Top)
        /\ (instruction = i_invokestatic /\ HasOperands(2)) =>
               LET index == bytecode(Top, Top.pc + 1) * 256 + bytecode(Top, Top.pc + 2)
               IN IF MethodIndexFatal(index, class) THEN TRUE
                  ELSE LET called_method == find_method_from_index(index, class)
                       IN called_method # NULL =>
                              get_number_of_parameters(class.methods[called_method])
                                  <= class.methods[called_method].code.max_locals

\* the loop test of the innermost activation fails: its pc, taken as the u4
\* it is, is code_length or more (a pc below 0 here is 2^32 less than the u4)
PcOutsideCode ==
    /\ status = "running" /\ frames # <<>>
    /\ (Top.pc >= code_length(Top) \/ Top.pc < 0)

\* C28: when the pc of a frame is code_length or more without a return
\* having executed, by running past the last instruction or by a branch or
\* goto to a target outside the code (a backward offset larger than the pc
\* included), the activation ends with the void result: the caller pushes
\* nothing and continues after its invokestatic, and when the frame is
\* main's the run goes on to its normal end.
C28_PcPastEndReturnsVoid ==
    /\ [](PcOutsideCode => ENABLED <<Next>>_vars)
    /\ [][/\ PcOutsideCode =>
               /\ out' = out /\ heap' = heap /\ memory' = memory
               /\ IF Len(frames) = 1
                  THEN /\ frames' = <<>>
                       /\ status' = "returned"
                       /\ ~result'.has_value
                  ELSE /\ status' = "running"
                       /\ Len(frames') = Len(frames) - 1
                       /\ SuspendedUnchanged(Len(frames) - 2)
                       /\ Top' = [Caller EXCEPT !.pc = @ + 2]
          /\ (status = "returned" /\ ~result.has_value) => status' = "exited"
         ]_vars

\* rec(0) ended by its branch to the end of the code, rec(1) and rec(2) ran
\* off the end after printing, and so did main: the run ended normally
C28_Witness ==
    /\ class \in RecursiveClasses
    /\ status = "exited"
    /\ out = <<1, 2, 5, 2>>
    /\ ~result.has_value

====
